---------------------------- MODULE Spec2Model ----------------------------
(***************************************************************************)
(* A model of the ISDOC codec and validator (package isdoc).               *)
(*                                                                         *)
(* Texts are sequences of one-character strings.  A byte buffer is a       *)
(* sequence of symbols: single characters, and the multi-character pieces  *)
(* the encoder writes in one call (element names, "</", character          *)
(* entities, the XML declaration, the namespace attribute).                *)
(*                                                                         *)
(* A Go struct value is a record keyed by the Go field names, a pointer is *)
(* <<>> (nil) or <<v>>, a slice is a sequence, types.Decimal and           *)
(* types.UUID are texts, types.Bool is a BOOLEAN and types.Date is a       *)
(* record [y, m, d] whose zero value is year 1, January 1.                 *)
(***************************************************************************)
EXTENDS Integers, Sequences, FiniteSets, TLC

VARIABLES
    ordering,   \* ordering.Sequence, the Ordering Table
    given,      \* the document an input buffer was written from
    data,       \* the byte buffer handed to DecodeBytes
    invoice,    \* *schema.Invoice held by the caller: <<>> is nil
    decErr,     \* the error DecodeBytes returned with it
    encoded,    \* the bytes EncodeBytes returned
    encErr,     \* the error EncodeBytes returned
    invoice2,   \* the result of decoding `encoded` again
    decErr2,    \* and its error
    opts,       \* ValidateOptions of a validation call
    errs,       \* ValidationErrors accumulated by a validation call
    pc,         \* what the caller has done so far
    calls,      \* calls in flight on concurrent goroutines, one per caller
    made        \* what a constructor or method of package types returned

vars == <<ordering, given, data, invoice, decErr, encoded, encErr,
          invoice2, decErr2, opts, errs, pc, calls, made>>

-----------------------------------------------------------------------------
(* Bounds of the model *)

\* the most entries one header reference collection holds
MaxRefs == 2
\* the most invoice lines of a document
MaxLines == 2

-----------------------------------------------------------------------------
(* Sequence helpers *)

RECURSIVE Flatten(_)
Flatten(ss) == IF ss = <<>> THEN <<>> ELSE Head(ss) \o Flatten(Tail(ss))

Range(s) == {s[i] : i \in 1..Len(s)}

Repeat(x, n) == [i \in 1..n |-> x]

-----------------------------------------------------------------------------
(* Characters and symbols *)

Digits == <<"0", "1", "2", "3", "4", "5", "6", "7", "8", "9">>
DigitSet == Range(Digits)
HexLetters == {"a", "b", "c", "d", "e", "f", "A", "B", "C", "D", "E", "F"}
\* white space; two spaces written at once are one symbol
Spaces == {" ", "  ", "\n", "\t", "\r"}

XMLDecl == "<?xml version=\"1.0\" encoding=\"UTF-8\"?>"
\* schema.Namespace, written as the attribute xmlns="..."
Namespace == "xmlns=\"http://isdoc.cz/namespace/2013\""

\* xml.EscapeText: the replacement written for one character
EscapeChar(c) ==
    CASE c = "\"" -> "&#34;"
      [] c = "'"  -> "&#39;"
      [] c = "&"  -> "&amp;"
      [] c = "<"  -> "&lt;"
      [] c = ">"  -> "&gt;"
      [] c = "\t" -> "&#x9;"
      [] c = "\n" -> "&#xA;"
      [] c = "\r" -> "&#xD;"
      [] OTHER    -> c

EscapeText(s) == [i \in 1..Len(s) |-> EscapeChar(s[i])]

Entities == {"&#34;", "&#39;", "&amp;", "&lt;", "&gt;", "&#x9;", "&#xA;", "&#xD;",
             "&quot;", "&apos;"}

\* the character an entity stands for (xml.Decoder.text)
Unescape(e) ==
    CASE e = "&#34;" -> "\""
      [] e = "&quot;" -> "\""
      [] e = "&#39;" -> "'"
      [] e = "&apos;" -> "'"
      [] e = "&amp;" -> "&"
      [] e = "&lt;" -> "<"
      [] e = "&gt;" -> ">"
      [] e = "&#x9;" -> "\t"
      [] e = "&#xA;" -> "\n"
      [] e = "&#xD;" -> "\r"

\* strings.TrimSpace
RECURSIVE TrimLeft(_)
TrimLeft(s) ==
    IF s # <<>> /\ Head(s) \in Spaces THEN TrimLeft(Tail(s)) ELSE s

RECURSIVE TrimRight(_)
TrimRight(s) ==
    IF s # <<>> /\ s[Len(s)] \in Spaces
    THEN TrimRight(SubSeq(s, 1, Len(s) - 1)) ELSE s

TrimSpace(s) == TrimRight(TrimLeft(s))

-----------------------------------------------------------------------------
(* Scalar types: types.Decimal, types.UUID, types.Date, types.Bool, and the  *)
(* integer conversions of strconv and fmt                                    *)

DigitVal(c) == CHOOSE i \in 0..9 : Digits[i + 1] = c

AllDigits(s) == \A i \in 1..Len(s) : s[i] \in DigitSet

RECURSIVE NatValue(_)
NatValue(s) == IF s = <<>> THEN 0
               ELSE 10 * NatValue(SubSeq(s, 1, Len(s) - 1)) + DigitVal(s[Len(s)])

RECURSIVE NatText(_)
NatText(n) == IF n < 10 THEN <<Digits[n + 1]>>
              ELSE NatText(n \div 10) \o <<Digits[(n % 10) + 1]>>

\* fmt.Sprintf("%d", n)
FormatInt(n) == IF n < 0 THEN <<"-">> \o NatText(-n) ELSE NatText(n)

\* strconv.ParseInt(s, 10, 64): an optional sign, then one or more digits
\* (texts here are far shorter than the 19 digits at which int64 overflows)
ParseInt(s) ==
    LET signed == s # <<>> /\ Head(s) \in {"+", "-"}
        body   == IF signed THEN Tail(s) ELSE s
    IN  IF body = <<>> \/ ~AllDigits(body) THEN [ok |-> FALSE, val |-> 0]
        ELSE [ok |-> TRUE,
              val |-> IF signed /\ Head(s) = "-" THEN -NatValue(body) ELSE NatValue(body)]

\* a pattern that wants digits on both sides of a point:  ^-?\d+(\.\d+)?$
MatchDecimalBothSides(s) ==
    LET body == IF s # <<>> /\ Head(s) = "-" THEN Tail(s) ELSE s
        n    == Len(body)
    IN  \E k \in 1..n :
            /\ AllDigits(SubSeq(body, 1, k))
            /\ \/ k = n
               \/ /\ k + 1 < n /\ body[k + 1] = "."
                  /\ AllDigits(SubSeq(body, k + 2, n))

\* decimalPattern  ^-?(\d+\.?\d*|\d*\.?\d+)$
MatchDecimal(s) ==
    LET body == IF s # <<>> /\ Head(s) = "-" THEN Tail(s) ELSE s
        n    == Len(body)
        \* \d{lo,} \.? \d{hi,} with the digits split after position k
        Alt(minBefore, minAfter) ==
            \E k \in 0..n :
                /\ k >= minBefore
                /\ AllDigits(SubSeq(body, 1, k))
                /\ \/ /\ n - k >= minAfter
                      /\ AllDigits(SubSeq(body, k + 1, n))
                   \/ /\ k < n /\ body[k + 1] = "."
                      /\ n - k - 1 >= minAfter
                      /\ AllDigits(SubSeq(body, k + 2, n))
    IN  Alt(1, 0) \/ Alt(0, 1)

\* types.NewDecimal
NewDecimal(s) ==
    IF ~MatchDecimal(s) THEN [ok |-> FALSE, val |-> <<>>]
    ELSE [ok |-> TRUE, val |-> s]

\* Decimal.IsZero
DecimalIsZero(d) == d = <<>>

\* uuidPattern: 8-4-4-4-12 hexadecimal digits
MatchUUID(s) ==
    /\ Len(s) = 36
    /\ \A i \in 1..36 :
          IF i \in {9, 14, 19, 24} THEN s[i] = "-"
          ELSE s[i] \in DigitSet \cup HexLetters

\* types.NewUUID
NewUUID(s0) ==
    LET s == TrimSpace(s0)
    IN  IF s = <<>> THEN [ok |-> TRUE, val |-> <<>>]
        ELSE IF ~MatchUUID(s) THEN [ok |-> FALSE, val |-> <<>>]
        ELSE [ok |-> TRUE, val |-> s]

\* the zero time.Time: January 1, year 1
ZeroDate == [y |-> 1, m |-> 1, d |-> 1]

IsLeap(y) == y % 4 = 0 /\ (y % 100 # 0 \/ y % 400 = 0)

DaysIn(m, y) ==
    IF m = 2 THEN (IF IsLeap(y) THEN 29 ELSE 28)
    ELSE IF m \in {4, 6, 9, 11} THEN 30 ELSE 31

\* types.ParseDate: time.Parse("2006-01-02", s)
ParseDate(s) ==
    IF s = <<>> THEN [ok |-> TRUE, val |-> ZeroDate]
    ELSE IF /\ Len(s) = 10
            /\ AllDigits(SubSeq(s, 1, 4)) /\ s[5] = "-"
            /\ AllDigits(SubSeq(s, 6, 7)) /\ s[8] = "-"
            /\ AllDigits(SubSeq(s, 9, 10))
         THEN LET y == NatValue(SubSeq(s, 1, 4))
                  m == NatValue(SubSeq(s, 6, 7))
                  d == NatValue(SubSeq(s, 9, 10))
              IN  IF m \in 1..12 /\ d >= 1 /\ d <= DaysIn(m, y)
                  THEN [ok |-> TRUE, val |-> [y |-> y, m |-> m, d |-> d]]
                  ELSE [ok |-> FALSE, val |-> ZeroDate]
         ELSE [ok |-> FALSE, val |-> ZeroDate]

\* Date.IsZero
DateIsZero(d) == d = ZeroDate

Pad(n, width) ==
    LET t == NatText(n)
    IN  IF Len(t) >= width THEN t ELSE Repeat("0", width - Len(t)) \o t

\* Date.String: Format("2006-01-02"), "" for the zero date
DateString(d) ==
    IF DateIsZero(d) THEN <<>>
    ELSE Pad(d.y, 4) \o <<"-">> \o Pad(d.m, 2) \o <<"-">> \o Pad(d.d, 2)

\* types.ParseBool
ParseBool(s) ==
    IF s = <<"t", "r", "u", "e">> THEN [ok |-> TRUE, val |-> TRUE]
    ELSE IF s = <<"f", "a", "l", "s", "e">> THEN [ok |-> TRUE, val |-> FALSE]
    ELSE IF s = <<>> THEN [ok |-> TRUE, val |-> FALSE]
    ELSE [ok |-> FALSE, val |-> FALSE]

\* Bool.UnmarshalXML: the character data is trimmed before it is parsed
BoolUnmarshalXML(text) == ParseBool(TrimSpace(text))

\* Bool.String
BoolString(b) == IF b THEN <<"t", "r", "u", "e">> ELSE <<"f", "a", "l", "s", "e">>

-----------------------------------------------------------------------------
(* The Document Model: package schema.  Each struct type is the sequence of *)
(* its fields in declaration order; a field is its Go name, its xml tag     *)
(* split at the commas (strings.Split(xmlTag, ",")) and its type.           *)
(* The optional sections that no rule of the validator reads are left out   *)
(* (notes, extensions, delivery, payment means, supplements, tax schemes,   *)
(* register and contact data, and the further optional texts and dates of   *)
(* the reference entries).                                                  *)

F(go, tag, ty) == [go |-> go, tag |-> tag, ty |-> ty]

\* reflect.Kind and type name of a field type
TString  == [k |-> "String", n |-> "string"]
TDecimal == [k |-> "String", n |-> "Decimal"]
TUUID    == [k |-> "String", n |-> "UUID"]
TInt     == [k |-> "Int", n |-> "int"]
TBool    == [k |-> "Bool", n |-> "Bool"]
TDate    == [k |-> "Struct", n |-> "Date"]
TXMLName == [k |-> "Struct", n |-> "Name"]
TStruct(n) == [k |-> "Struct", n |-> n]
TPtr(n)    == [k |-> "Ptr", n |-> n]
TSlice(n)  == [k |-> "Slice", n |-> n]

\* schema.Invoice
InvoiceFields ==
    << F("XMLName", <<"Invoice">>, TXMLName),
       F("Version", <<"version", "attr">>, TString),
       F("DocumentType", <<"DocumentType">>, TInt),
       F("ID", <<"ID">>, TString),
       F("UUID", <<"UUID">>, TUUID),
       F("IssueDate", <<"IssueDate">>, TDate),
       F("VATApplicable", <<"VATApplicable">>, TBool),
       F("LocalCurrencyCode", <<"LocalCurrencyCode">>, TString),
       F("ForeignCurrencyCode", <<"ForeignCurrencyCode", "omitempty">>, TString),
       F("CurrRate", <<"CurrRate">>, TDecimal),
       F("RefCurrRate", <<"RefCurrRate">>, TDecimal),
       F("AccountingSupplierParty", <<"AccountingSupplierParty">>,
          TStruct("AccountingSupplierParty")),
       F("AnonymousCustomerParty", <<"AnonymousCustomerParty", "omitempty">>,
          TPtr("AnonymousCustomerParty")),
       F("AccountingCustomerParty", <<"AccountingCustomerParty", "omitempty">>,
          TPtr("AccountingCustomerParty")),
       F("OrderReferences", <<"OrderReferences", "omitempty">>, TPtr("OrderReferences")),
       F("DeliveryNoteReferences", <<"DeliveryNoteReferences", "omitempty">>,
          TPtr("DeliveryNoteReferences")),
       F("OriginalDocumentReferences", <<"OriginalDocumentReferences", "omitempty">>,
          TPtr("OriginalDocumentReferences")),
       F("ContractReferences", <<"ContractReferences", "omitempty">>, TPtr("ContractReferences")),
       F("InvoiceLines", <<"InvoiceLines">>, TStruct("InvoiceLines")),
       F("NonTaxedDeposits", <<"NonTaxedDeposits", "omitempty">>, TPtr("NonTaxedDeposits")),
       F("TaxedDeposits", <<"TaxedDeposits", "omitempty">>, TPtr("TaxedDeposits")),
       F("TaxTotal", <<"TaxTotal">>, TStruct("TaxTotal")),
       F("LegalMonetaryTotal", <<"LegalMonetaryTotal">>, TStruct("LegalMonetaryTotal")) >>

\* schema.AccountingSupplierParty
AccountingSupplierPartyFields ==
    << F("Party", <<"Party">>, TStruct("Party")) >>

\* schema.AccountingCustomerParty
AccountingCustomerPartyFields ==
    << F("Party", <<"Party">>, TStruct("Party")) >>

\* schema.AnonymousCustomerParty
AnonymousCustomerPartyFields ==
    << F("ID", <<"ID">>, TString),
       F("IDScheme", <<"IDScheme", "omitempty">>, TString) >>

\* schema.Party
PartyFields ==
    << F("PartyIdentification", <<"PartyIdentification">>, TStruct("PartyIdentification")),
       F("PartyName", <<"PartyName">>, TStruct("PartyName")),
       F("PostalAddress", <<"PostalAddress">>, TStruct("PostalAddress")) >>

\* schema.PartyIdentification
PartyIdentificationFields ==
    << F("UserID", <<"UserID", "omitempty">>, TString),
       F("CatalogFirmIdentification", <<"CatalogFirmIdentification", "omitempty">>, TString),
       F("ID", <<"ID">>, TString) >>

\* schema.PartyName
PartyNameFields ==
    << F("Name", <<"Name">>, TString) >>

\* schema.PostalAddress
PostalAddressFields ==
    << F("StreetName", <<"StreetName">>, TString),
       F("BuildingNumber", <<"BuildingNumber", "omitempty">>, TString),
       F("CityName", <<"CityName">>, TString),
       F("PostalZone", <<"PostalZone">>, TString),
       F("Country", <<"Country">>, TStruct("Country")) >>

\* schema.Country
CountryFields ==
    << F("IdentificationCode", <<"IdentificationCode">>, TString),
       F("Name", <<"Name", "omitempty">>, TString) >>

\* schema.OrderReferences
OrderReferencesFields ==
    << F("OrderReference", <<"OrderReference">>, TSlice("OrderReference")) >>

\* schema.OrderReference
OrderReferenceFields ==
    << F("ID", <<"id", "attr", "omitempty">>, TString),
       F("SalesOrderID", <<"SalesOrderID">>, TString) >>

\* schema.OrderLineReference
OrderLineReferenceFields ==
    << F("Ref", <<"ref", "attr", "omitempty">>, TString),
       F("LineID", <<"LineID", "omitempty">>, TString) >>

\* schema.DeliveryNoteReferences
DeliveryNoteReferencesFields ==
    << F("DeliveryNoteReference", <<"DeliveryNoteReference">>, TSlice("DeliveryNoteReference")) >>

\* schema.DeliveryNoteReference
DeliveryNoteReferenceFields ==
    << F("ID", <<"id", "attr", "omitempty">>, TString),
       F("DeliveryNoteID", <<"ID">>, TString) >>

\* schema.DeliveryNoteLineReference
DeliveryNoteLineReferenceFields ==
    << F("Ref", <<"ref", "attr", "omitempty">>, TString),
       F("LineID", <<"LineID", "omitempty">>, TString) >>

\* schema.OriginalDocumentReferences
OriginalDocumentReferencesFields ==
    << F("OriginalDocumentReference", <<"OriginalDocumentReference">>,
          TSlice("OriginalDocumentReference")) >>

\* schema.OriginalDocumentReference
OriginalDocumentReferenceFields ==
    << F("ID", <<"id", "attr", "omitempty">>, TString),
       F("OriginalDocumentID", <<"ID">>, TString) >>

\* schema.OriginalDocumentLineReference
OriginalDocumentLineReferenceFields ==
    << F("Ref", <<"ref", "attr", "omitempty">>, TString),
       F("LineID", <<"LineID", "omitempty">>, TString) >>

\* schema.ContractReferences
ContractReferencesFields ==
    << F("ContractReference", <<"ContractReference">>, TSlice("ContractReference")) >>

\* schema.ContractReference
ContractReferenceFields ==
    << F("ID", <<"id", "attr", "omitempty">>, TString),
       F("ContractID", <<"ID">>, TString) >>

\* schema.ContractLineReference
ContractLineReferenceFields ==
    << F("Ref", <<"ref", "attr", "omitempty">>, TString),
       F("ParagraphID", <<"ParagraphID", "omitempty">>, TString) >>

\* schema.InvoiceLines
InvoiceLinesFields ==
    << F("InvoiceLine", <<"InvoiceLine">>, TSlice("InvoiceLine")) >>

\* schema.InvoiceLine
InvoiceLineFields ==
    << F("ID", <<"ID">>, TString),
       F("OrderReference", <<"OrderReference", "omitempty">>, TPtr("OrderLineReference")),
       F("DeliveryNoteReference", <<"DeliveryNoteReference", "omitempty">>,
          TPtr("DeliveryNoteLineReference")),
       F("OriginalDocumentReference", <<"OriginalDocumentReference", "omitempty">>,
          TPtr("OriginalDocumentLineReference")),
       F("ContractReference", <<"ContractReference", "omitempty">>, TPtr("ContractLineReference")),
       F("InvoicedQuantity", <<"InvoicedQuantity">>, TStruct("Quantity")),
       F("LineExtensionAmountCurr", <<"LineExtensionAmountCurr", "omitempty">>, TDecimal),
       F("LineExtensionAmount", <<"LineExtensionAmount">>, TDecimal),
       F("LineExtensionAmountTaxInclusiveCurr", <<"LineExtensionAmountTaxInclusiveCurr",
          "omitempty">>, TDecimal),
       F("LineExtensionAmountTaxInclusive", <<"LineExtensionAmountTaxInclusive">>, TDecimal),
       F("ClassifiedTaxCategory", <<"ClassifiedTaxCategory">>, TStruct("ClassifiedTaxCategory")),
       F("Item", <<"Item">>, TStruct("Item")) >>

\* schema.Quantity
QuantityFields ==
    << F("Value", <<"", "chardata">>, TDecimal),
       F("UnitCode", <<"unitCode", "attr", "omitempty">>, TString) >>

\* schema.ClassifiedTaxCategory
ClassifiedTaxCategoryFields ==
    << F("Percent", <<"Percent">>, TDecimal),
       F("VATCalculationMethod", <<"VATCalculationMethod", "omitempty">>, TInt),
       F("VATApplicable", <<"VATApplicable", "omitempty">>, TBool) >>

\* schema.Item
ItemFields ==
    << F("Description", <<"Description">>, TString),
       F("SellersItemIdentification", <<"SellersItemIdentification", "omitempty">>,
          TPtr("ItemIdentification")),
       F("SecondarySellersItemIdentification", <<"SecondarySellersItemIdentification",
          "omitempty">>, TPtr("ItemIdentification")),
       F("TertiarySellersItemIdentification", <<"TertiarySellersItemIdentification", "omitempty">>,
          TPtr("ItemIdentification")),
       F("StoreBatches", <<"StoreBatches", "omitempty">>, TPtr("StoreBatches")) >>

\* schema.ItemIdentification
ItemIdentificationFields ==
    << F("ID", <<"ID">>, TString) >>

\* schema.StoreBatches
StoreBatchesFields ==
    << F("StoreBatch", <<"StoreBatch">>, TSlice("StoreBatch")) >>

\* schema.StoreBatch
StoreBatchFields ==
    << F("Name", <<"Name", "omitempty">>, TString),
       F("Quantity", <<"Quantity", "omitempty">>, TStruct("Quantity")) >>

\* schema.NonTaxedDeposits
NonTaxedDepositsFields ==
    << F("NonTaxedDeposit", <<"NonTaxedDeposit">>, TSlice("NonTaxedDeposit")) >>

\* schema.NonTaxedDeposit
NonTaxedDepositFields ==
    << F("ID", <<"ID">>, TString),
       F("DepositAmountCurr", <<"DepositAmountCurr", "omitempty">>, TDecimal),
       F("DepositAmount", <<"DepositAmount">>, TDecimal) >>

\* schema.TaxedDeposits
TaxedDepositsFields ==
    << F("TaxedDeposit", <<"TaxedDeposit">>, TSlice("TaxedDeposit")) >>

\* schema.TaxedDeposit
TaxedDepositFields ==
    << F("ID", <<"ID">>, TString),
       F("TaxableDepositAmountCurr", <<"TaxableDepositAmountCurr", "omitempty">>, TDecimal),
       F("TaxableDepositAmount", <<"TaxableDepositAmount">>, TDecimal),
       F("TaxInclusiveDepositAmountCurr", <<"TaxInclusiveDepositAmountCurr", "omitempty">>,
          TDecimal),
       F("TaxInclusiveDepositAmount", <<"TaxInclusiveDepositAmount">>, TDecimal) >>

\* schema.TaxTotal
TaxTotalFields ==
    << F("TaxSubTotal", <<"TaxSubTotal">>, TSlice("TaxSubTotal")),
       F("TaxAmountCurr", <<"TaxAmountCurr", "omitempty">>, TDecimal),
       F("TaxAmount", <<"TaxAmount">>, TDecimal) >>

\* schema.TaxSubTotal
TaxSubTotalFields ==
    << F("TaxableAmountCurr", <<"TaxableAmountCurr", "omitempty">>, TDecimal),
       F("TaxableAmount", <<"TaxableAmount">>, TDecimal),
       F("TaxAmountCurr", <<"TaxAmountCurr", "omitempty">>, TDecimal),
       F("TaxAmount", <<"TaxAmount">>, TDecimal),
       F("TaxInclusiveAmountCurr", <<"TaxInclusiveAmountCurr", "omitempty">>, TDecimal),
       F("TaxInclusiveAmount", <<"TaxInclusiveAmount">>, TDecimal),
       F("AlreadyClaimedTaxableAmountCurr", <<"AlreadyClaimedTaxableAmountCurr", "omitempty">>,
          TDecimal),
       F("AlreadyClaimedTaxableAmount", <<"AlreadyClaimedTaxableAmount", "omitempty">>, TDecimal),
       F("AlreadyClaimedTaxAmountCurr", <<"AlreadyClaimedTaxAmountCurr", "omitempty">>, TDecimal),
       F("AlreadyClaimedTaxAmount", <<"AlreadyClaimedTaxAmount", "omitempty">>, TDecimal),
       F("AlreadyClaimedTaxInclusiveAmountCurr", <<"AlreadyClaimedTaxInclusiveAmountCurr",
          "omitempty">>, TDecimal),
       F("AlreadyClaimedTaxInclusiveAmount", <<"AlreadyClaimedTaxInclusiveAmount", "omitempty">>,
          TDecimal),
       F("DifferenceTaxableAmountCurr", <<"DifferenceTaxableAmountCurr", "omitempty">>, TDecimal),
       F("DifferenceTaxableAmount", <<"DifferenceTaxableAmount", "omitempty">>, TDecimal),
       F("DifferenceTaxAmountCurr", <<"DifferenceTaxAmountCurr", "omitempty">>, TDecimal),
       F("DifferenceTaxAmount", <<"DifferenceTaxAmount", "omitempty">>, TDecimal),
       F("DifferenceTaxInclusiveAmountCurr", <<"DifferenceTaxInclusiveAmountCurr", "omitempty">>,
          TDecimal),
       F("DifferenceTaxInclusiveAmount", <<"DifferenceTaxInclusiveAmount", "omitempty">>,
          TDecimal) >>

\* schema.LegalMonetaryTotal
LegalMonetaryTotalFields ==
    << F("TaxExclusiveAmount", <<"TaxExclusiveAmount">>, TDecimal),
       F("TaxExclusiveAmountCurr", <<"TaxExclusiveAmountCurr", "omitempty">>, TDecimal),
       F("TaxInclusiveAmount", <<"TaxInclusiveAmount">>, TDecimal),
       F("TaxInclusiveAmountCurr", <<"TaxInclusiveAmountCurr", "omitempty">>, TDecimal),
       F("AlreadyClaimedTaxExclusiveAmount", <<"AlreadyClaimedTaxExclusiveAmount", "omitempty">>,
          TDecimal),
       F("AlreadyClaimedTaxExclusiveAmountCurr", <<"AlreadyClaimedTaxExclusiveAmountCurr",
          "omitempty">>, TDecimal),
       F("AlreadyClaimedTaxInclusiveAmount", <<"AlreadyClaimedTaxInclusiveAmount", "omitempty">>,
          TDecimal),
       F("AlreadyClaimedTaxInclusiveAmountCurr", <<"AlreadyClaimedTaxInclusiveAmountCurr",
          "omitempty">>, TDecimal),
       F("DifferenceTaxExclusiveAmount", <<"DifferenceTaxExclusiveAmount", "omitempty">>, TDecimal),
       F("DifferenceTaxExclusiveAmountCurr", <<"DifferenceTaxExclusiveAmountCurr", "omitempty">>,
          TDecimal),
       F("DifferenceTaxInclusiveAmount", <<"DifferenceTaxInclusiveAmount", "omitempty">>, TDecimal),
       F("DifferenceTaxInclusiveAmountCurr", <<"DifferenceTaxInclusiveAmountCurr", "omitempty">>,
          TDecimal),
       F("PayableRoundingAmount", <<"PayableRoundingAmount", "omitempty">>, TDecimal),
       F("PayableRoundingAmountCurr", <<"PayableRoundingAmountCurr", "omitempty">>, TDecimal),
       F("PaidDepositsAmount", <<"PaidDepositsAmount", "omitempty">>, TDecimal),
       F("PaidDepositsAmountCurr", <<"PaidDepositsAmountCurr", "omitempty">>, TDecimal),
       F("PayableAmount", <<"PayableAmount">>, TDecimal),
       F("PayableAmountCurr", <<"PayableAmountCurr", "omitempty">>, TDecimal) >>

StructNames ==
    {"Invoice", "AccountingSupplierParty", "AccountingCustomerParty", "AnonymousCustomerParty",
          "Party", "PartyIdentification", "PartyName", "PostalAddress", "Country",
          "OrderReferences", "OrderReference", "OrderLineReference", "DeliveryNoteReferences",
          "DeliveryNoteReference", "DeliveryNoteLineReference", "OriginalDocumentReferences",
          "OriginalDocumentReference", "OriginalDocumentLineReference", "ContractReferences",
          "ContractReference", "ContractLineReference", "InvoiceLines", "InvoiceLine", "Quantity",
          "ClassifiedTaxCategory", "Item", "ItemIdentification", "StoreBatches", "StoreBatch",
          "NonTaxedDeposits", "NonTaxedDeposit", "TaxedDeposits", "TaxedDeposit", "TaxTotal",
          "TaxSubTotal", "LegalMonetaryTotal"}

\* the fields of a struct type, by type name
Fields(n) ==
    CASE n = "Invoice" -> InvoiceFields
      [] n = "AccountingSupplierParty" -> AccountingSupplierPartyFields
      [] n = "AccountingCustomerParty" -> AccountingCustomerPartyFields
      [] n = "AnonymousCustomerParty" -> AnonymousCustomerPartyFields
      [] n = "Party" -> PartyFields
      [] n = "PartyIdentification" -> PartyIdentificationFields
      [] n = "PartyName" -> PartyNameFields
      [] n = "PostalAddress" -> PostalAddressFields
      [] n = "Country" -> CountryFields
      [] n = "OrderReferences" -> OrderReferencesFields
      [] n = "OrderReference" -> OrderReferenceFields
      [] n = "OrderLineReference" -> OrderLineReferenceFields
      [] n = "DeliveryNoteReferences" -> DeliveryNoteReferencesFields
      [] n = "DeliveryNoteReference" -> DeliveryNoteReferenceFields
      [] n = "DeliveryNoteLineReference" -> DeliveryNoteLineReferenceFields
      [] n = "OriginalDocumentReferences" -> OriginalDocumentReferencesFields
      [] n = "OriginalDocumentReference" -> OriginalDocumentReferenceFields
      [] n = "OriginalDocumentLineReference" -> OriginalDocumentLineReferenceFields
      [] n = "ContractReferences" -> ContractReferencesFields
      [] n = "ContractReference" -> ContractReferenceFields
      [] n = "ContractLineReference" -> ContractLineReferenceFields
      [] n = "InvoiceLines" -> InvoiceLinesFields
      [] n = "InvoiceLine" -> InvoiceLineFields
      [] n = "Quantity" -> QuantityFields
      [] n = "ClassifiedTaxCategory" -> ClassifiedTaxCategoryFields
      [] n = "Item" -> ItemFields
      [] n = "ItemIdentification" -> ItemIdentificationFields
      [] n = "StoreBatches" -> StoreBatchesFields
      [] n = "StoreBatch" -> StoreBatchFields
      [] n = "NonTaxedDeposits" -> NonTaxedDepositsFields
      [] n = "NonTaxedDeposit" -> NonTaxedDepositFields
      [] n = "TaxedDeposits" -> TaxedDepositsFields
      [] n = "TaxedDeposit" -> TaxedDepositFields
      [] n = "TaxTotal" -> TaxTotalFields
      [] n = "TaxSubTotal" -> TaxSubTotalFields
      [] n = "LegalMonetaryTotal" -> LegalMonetaryTotalFields

\* the Go field names of a struct type
GoNames(n) == {Fields(n)[i].go : i \in 1..Len(Fields(n))}

\* the declared type of the field with Go name g
FieldType(n, g) == Fields(n)[CHOOSE i \in 1..Len(Fields(n)) : Fields(n)[i].go = g].ty

\* the options of a tag after its name
HasFlag(f, flag) == \E k \in 2..Len(f.tag) : f.tag[k] = flag

\* a field that is read from and written as a child element
IsElement(f) == ~HasFlag(f, "attr") /\ ~HasFlag(f, "chardata") /\ f.ty # TXMLName

\* the zero value of a type
RECURSIVE Zero(_)
Zero(ty) ==
    CASE ty.k = "String" -> <<>>
      [] ty.k = "Int"    -> 0
      [] ty.k = "Bool"   -> FALSE
      [] ty.k = "Ptr"    -> <<>>
      [] ty.k = "Slice"  -> <<>>
      [] ty.k = "Struct" ->
            IF ty.n = "Date" THEN ZeroDate
            ELSE IF ty.n = "Name" THEN [Space |-> <<>>, Local |-> <<>>]
            ELSE [g \in GoNames(ty.n) |-> Zero(FieldType(ty.n, g))]

\* what `var invoice schema.Invoice` holds
ZeroInvoice == Zero(TStruct("Invoice"))
ZeroLine == Zero(TStruct("InvoiceLine"))

-----------------------------------------------------------------------------
(* Errors: errors.go.  A path is the text before an index, the index and   *)
(* the text after it; a message is its format and the %q argument.         *)

\* the nil error
Nil == [type |-> "nil"]

Path(head, index, tail) == [head |-> head, index |-> index, tail |-> tail]
NoPath == Path("", 0, "")

Errorf(format, arg) == [fmt |-> format, arg |-> arg]

\* NewDecodeError
NewDecodeError(path, err) == [type |-> "*DecodeError", Path |-> path, Err |-> err]

\* a non-empty DecodeErrors value returned as error
DecodeErrors(list) == [type |-> "DecodeErrors", list |-> list]

-----------------------------------------------------------------------------
(* The encoder: encode.go *)

\* Encoder.indent as NewEncoder sets it: two spaces, written as one symbol
Indent == "  "

\* Encoder.isZero
isZero(v, ty) ==
    CASE ty.k = "Ptr"    -> v = <<>>
      [] ty.k = "Slice"  -> Len(v) = 0
      [] ty.k = "String" -> v = <<>>
      [] ty.k = "Bool"   -> FALSE
      [] ty.k = "Int"    -> v = 0
      [] ty.k = "Struct" -> IF ty.n = "Date" THEN DateIsZero(v) ELSE FALSE
      [] OTHER           -> FALSE

\* Encoder.extractFields: element name -> the field holding it, as the index
\* of the field; a later field of the same name replaces an earlier one
extractFields(n) ==
    LET fs   == Fields(n)
        Keep == {i \in 1..Len(fs) :
                    /\ fs[i].tag # <<"-">>
                    /\ fs[i].tag[1] # "xmlns"
                    /\ fs[i].tag[1] # ""}
    IN  [e \in {fs[i].tag[1] : i \in Keep} |->
            CHOOSE i \in Keep : /\ fs[i].tag[1] = e
                                /\ \A j \in Keep : fs[j].tag[1] = e => j <= i]

\* <name>text</name>\n at the given indentation, the text escaped
Leaf(name, text, depth) ==
    Repeat(Indent, depth) \o <<"<", name, ">">> \o EscapeText(text)
        \o <<"</", name, ">", "\n">>

\* Encoder.encodeValue: the symbols written for one value
RECURSIVE encodeValue(_, _, _, _, _)
encodeValue(ord, name, v0, ty0, depth) ==
    LET nil == ty0.k = "Ptr" /\ v0 = <<>>
        v   == IF ty0.k = "Ptr" /\ ~nil THEN v0[1] ELSE v0
        ty  == IF ty0.k = "Ptr" THEN TStruct(ty0.n) ELSE ty0
    IN  IF nil THEN <<>>
        ELSE IF isZero(v, ty) THEN <<>>
        ELSE CASE ty.k = "String" -> Leaf(name, v, depth)
               [] ty.k = "Int"    -> Leaf(name, FormatInt(v), depth)
               [] ty.k = "Bool"   -> Leaf(name, BoolString(v), depth)
               [] ty.k = "Slice"  ->
                    Flatten([i \in 1..Len(v) |->
                                encodeValue(ord, name, v[i], TStruct(ty.n), depth)])
               [] ty.k = "Struct" ->
                    IF ty.n = "Date" THEN Leaf(name, DateString(v), depth)
                    ELSE
                      LET fs     == Fields(ty.n)
                          fields == extractFields(ty.n)
                          inner  ==
                            IF ty.n \in DOMAIN ord
                            THEN LET order == ord[ty.n]
                                 IN  Flatten([k \in 1..Len(order) |->
                                        IF order[k] \in DOMAIN fields
                                        THEN LET f == fs[fields[order[k]]]
                                             IN  encodeValue(ord, order[k], v[f.go],
                                                             f.ty, depth + 1)
                                        ELSE <<>>])
                            ELSE Flatten([i \in 1..Len(fs) |->
                                        IF fs[i].tag = <<"-">> \/ fs[i].tag[1] = ""
                                        THEN <<>>
                                        ELSE encodeValue(ord, fs[i].tag[1], v[fs[i].go],
                                                         fs[i].ty, depth + 1)])
                      IN  Repeat(Indent, depth) \o <<"<", name, ">", "\n">>
                            \o inner
                            \o Repeat(Indent, depth) \o <<"</", name, ">", "\n">>

\* encodeInvoiceContent as it would be if it followed the declarations
encodeInvoiceContentDeclared(ord, inv, depth) ==
    Flatten([i \in 1..Len(InvoiceFields) |->
        IF IsElement(InvoiceFields[i])
        THEN encodeValue(ord, InvoiceFields[i].tag[1], inv[InvoiceFields[i].go],
                         InvoiceFields[i].ty, depth)
        ELSE <<>>])

\* Encoder.encodeInvoiceContent
encodeInvoiceContent(ord, inv, depth) ==
    LET order  == ord["Invoice"]
        fields == extractFields("Invoice")
    IN  Flatten([k \in 1..Len(order) |->
            IF order[k] \in DOMAIN fields
            THEN LET f == InvoiceFields[fields[order[k]]]
                 IN  encodeValue(ord, order[k], inv[f.go], f.ty, depth)
            ELSE <<>>])

\* Encoder.Encode with addXMLDecl set, as EncodeBytes calls it: the bytes
\* written.  The version attribute is formatted into the root tag as it is.
Encode(ord, inv) ==
    <<XMLDecl, "\n">>
        \o <<"<", "Invoice", " ", Namespace, " ", "version", "=", "\"">>
        \o inv.Version \o <<"\"", ">">>
        \o <<"\n">>
        \o encodeInvoiceContent(ord, inv, 1)
        \o <<"</", "Invoice", ">", "\n">>

\* EncodeBytes as it would be if it refused a document that lacks its
\* identifier or its UUID
EncodeBytesValidated(ord, inv) ==
    IF inv.ID = <<>> \/ inv.UUID = <<>>
    THEN [data |-> <<>>, err |-> [type |-> "error"]]
    ELSE [data |-> Encode(ord, inv), err |-> Nil]

\* EncodeBytes: the bytes and the error
EncodeBytes(ord, inv) == [data |-> Encode(ord, inv), err |-> Nil]
-----------------------------------------------------------------------------
(* The decoder, pass 1: xml.Unmarshal as DecodeBytes calls it.  First the    *)
(* tokens of encoding/xml's strict Decoder, read into a tree; then the       *)
(* tree is stored into the Document Model field by field.                    *)

\* the names that occur as one symbol of a buffer: the element and attribute
\* names of the Document Model, and one name the model does not know
UnknownName == "Extension"
NameSymbols ==
    (UNION {{Fields(n)[i].tag[1] : i \in 1..Len(Fields(n))} : n \in StructNames}
        \cup {UnknownName}) \ {""}

Quotes == {"\"", "'"}
Failed == [ok |-> FALSE]

\* the first place from i on that holds a symbol of the set, Len(b) + 1 if
\* no place does
FirstOf(b, i, stops) ==
    CHOOSE k \in i..(Len(b) + 1) :
        /\ k > Len(b) \/ b[k] \in stops
        /\ \A j \in i..(k - 1) : b[j] \notin stops

\* Decoder.space: the first place from i on that holds no white space
SkipSpace(b, i) ==
    CHOOSE k \in i..(Len(b) + 1) :
        /\ k > Len(b) \/ b[k] \notin Spaces
        /\ \A j \in i..(k - 1) : b[j] \in Spaces

\* Decoder.text: the text that the symbols from i up to j stand for.  An
\* entity is replaced by its character, an unescaped carriage return becomes
\* a newline and swallows the newline after it, and a processing instruction
\* is no text.
TextOf(b, i, j) ==
    LET kept == SelectSeq([k \in 1..(j - i) |-> i + k - 1],
                          LAMBDA p : /\ b[p] # XMLDecl
                                     /\ ~(b[p] = "\n" /\ p > i /\ b[p - 1] = "\r"))
    IN  [q \in 1..Len(kept) |->
            IF b[kept[q]] \in Entities THEN Unescape(b[kept[q]])
            ELSE IF b[kept[q]] = "\r" THEN "\n"
            ELSE b[kept[q]]]

\* Decoder.attrval: the quoted value that starts at i, after its opening
\* quote; a raw < or & in it is a syntax error
AttrVal(b, i, quote) ==
    LET j == FirstOf(b, i, {quote, "<", "</", "&"})
    IN  IF j > Len(b) \/ b[j] # quote THEN Failed
        ELSE [ok |-> TRUE, pos |-> j + 1, val |-> TextOf(b, i, j)]

\* Decoder.rawToken, the attributes of a start tag up to its > or />
RECURSIVE Attrs(_, _, _)
Attrs(b, i0, acc) ==
    LET i == SkipSpace(b, i0)
        j == SkipSpace(b, i + 1)
        k == SkipSpace(b, j + 1)
    IN  CASE i > Len(b) -> Failed
          [] i <= Len(b) /\ b[i] = ">" ->
                [ok |-> TRUE, pos |-> i + 1, attrs |-> acc, empty |-> FALSE]
          [] i <= Len(b) /\ b[i] = "/" ->
                IF i + 1 <= Len(b) /\ b[i + 1] = ">"
                THEN [ok |-> TRUE, pos |-> i + 2, attrs |-> acc, empty |-> TRUE]
                ELSE Failed
          [] i <= Len(b) /\ b[i] = Namespace ->
                Attrs(b, i + 1, Append(acc, [name |-> "xmlns", val |-> <<Namespace>>]))
          [] i <= Len(b) /\ b[i] \in NameSymbols ->
                IF j > Len(b) \/ b[j] # "=" \/ k > Len(b) \/ b[k] \notin Quotes THEN Failed
                ELSE LET r == AttrVal(b, k + 1, b[k])
                     IN  IF ~r.ok THEN Failed
                         ELSE Attrs(b, r.pos, Append(acc, [name |-> b[i], val |-> r.val]))
          [] OTHER -> Failed

\* Decoder.Token from a "<" on to the matching end tag: one element as
\* [name, attrs, text, kids], its text all the character data directly in it
RECURSIVE Element(_, _)
RECURSIVE Content(_, _, _, _)

Element(b, i) ==
    IF i + 1 > Len(b) \/ b[i + 1] \notin NameSymbols THEN Failed
    ELSE LET a == Attrs(b, i + 2, <<>>)
             c == Content(b, a.pos, <<>>, <<>>)
             e == SkipSpace(b, c.pos + 2)
         IN  CASE ~a.ok -> Failed
               [] a.ok /\ a.empty ->
                    [ok |-> TRUE, pos |-> a.pos,
                     node |-> [name |-> b[i + 1], attrs |-> a.attrs,
                               text |-> <<>>, kids |-> <<>>]]
               [] a.ok /\ ~a.empty /\ ~c.ok -> Failed
               [] OTHER ->
                    IF \/ c.pos + 1 > Len(b) \/ b[c.pos + 1] # b[i + 1]
                       \/ e > Len(b) \/ b[e] # ">"
                    THEN Failed
                    ELSE [ok |-> TRUE, pos |-> e + 1,
                          node |-> [name |-> b[i + 1], attrs |-> a.attrs,
                                    text |-> c.text, kids |-> c.kids]]

\* the content of an element from i up to the "</" that ends it
Content(b, i, text, kids) ==
    LET j  == FirstOf(b, i, {"<", "</", "&"})
        el == Element(b, j)
    IN  CASE j > Len(b) -> Failed
          [] j <= Len(b) /\ b[j] = "&" -> Failed
          [] j <= Len(b) /\ b[j] = "</" ->
                [ok |-> TRUE, pos |-> j, text |-> text \o TextOf(b, i, j), kids |-> kids]
          [] OTHER ->
                IF ~el.ok THEN Failed
                ELSE Content(b, el.pos, text \o TextOf(b, i, j), Append(kids, el.node))

\* Decoder.unmarshal, "Find start element if we need it": tokens are read
\* and dropped until the first start tag; what follows that element's end
\* is never read
RootElement(b, i) ==
    LET j == FirstOf(b, i, {"<", "</", "&"})
    IN  IF j > Len(b) \/ b[j] # "<" THEN Failed ELSE Element(b, j)

\* copyValue for an int field
CopyInt(src) == IF src = <<>> THEN [ok |-> TRUE, val |-> 0] ELSE ParseInt(TrimSpace(src))

\* Decimal.UnmarshalXML
DecimalUnmarshalXML(text) ==
    IF text = <<>> THEN [ok |-> TRUE, val |-> <<>>] ELSE NewDecimal(text)

\* the attributes of the start tag, stored into the attribute fields
RECURSIVE UnmarshalAttrs(_, _, _, _)
UnmarshalAttrs(attrs, k, n, v) ==
    IF k > Len(attrs) THEN v
    ELSE LET fs  == Fields(n)
             hit == {i \in 1..Len(fs) : HasFlag(fs[i], "attr") /\ fs[i].tag[1] = attrs[k].name}
         IN  UnmarshalAttrs(attrs, k + 1, n,
                IF hit = {} THEN v
                ELSE [v EXCEPT ![fs[CHOOSE i \in hit : TRUE].go] = attrs[k].val])

\* the XMLName field of a struct does not name the element
NameMismatch(node, n) ==
    \E i \in 1..Len(Fields(n)) :
        Fields(n)[i].ty = TXMLName /\ Fields(n)[i].tag[1] # node.name

\* the struct with its XMLName field set from the start tag
WithXMLName(node, n, cur) ==
    LET fs    == Fields(n)
        names == {i \in 1..Len(fs) : fs[i].ty = TXMLName}
        ns    == {k \in 1..Len(node.attrs) : node.attrs[k].name = "xmlns"}
    IN  IF names = {} THEN cur
        ELSE [cur EXCEPT ![fs[CHOOSE i \in names : TRUE].go] =
                 [Space |-> IF ns = {} THEN <<>> ELSE node.attrs[CHOOSE k \in ns : TRUE].val,
                  Local |-> <<node.name>>]]

\* the struct with the element's character data stored into its ",chardata"
\* field once the children are done
WithCharData(node, n, r) ==
    LET fs    == Fields(n)
        cdata == {i \in 1..Len(fs) : HasFlag(fs[i], "chardata")}
    IN  IF ~r.ok THEN Failed
        ELSE IF cdata = {} THEN r
        ELSE [ok |-> TRUE,
              val |-> [r.val EXCEPT ![fs[CHOOSE i \in cdata : TRUE].go] = node.text]]

\* the field a child element is stored into: the first element field of its
\* name, 0 if no field is named after it
KidField(n, name) ==
    LET fs  == Fields(n)
        hit == {i \in 1..Len(fs) :
                   /\ fs[i].ty # TXMLName
                   /\ ~HasFlag(fs[i], "attr") /\ ~HasFlag(fs[i], "chardata")
                   /\ fs[i].tag[1] = name}
    IN  IF hit = {} THEN 0 ELSE CHOOSE i \in hit : \A j \in hit : i <= j

\* the type a child is unmarshalled as, and the value it is unmarshalled
\* into: a nil pointer is allocated, a slice gets a new zero element
KidTarget(ty, c) ==
    CASE ty.k = "Ptr"   -> [ty  |-> TStruct(ty.n),
                            cur |-> IF c = <<>> THEN Zero(TStruct(ty.n)) ELSE c[1]]
      [] ty.k = "Slice" -> [ty |-> TStruct(ty.n), cur |-> Zero(TStruct(ty.n))]
      [] OTHER          -> [ty |-> ty, cur |-> c]

\* the field after the child is unmarshalled: the pointer set, the slice
\* grown by one, the value overwritten
KidStored(v, f, r) ==
    IF ~r.ok THEN Failed
    ELSE [ok  |-> TRUE,
          val |-> [v EXCEPT ![f.go] = CASE f.ty.k = "Ptr"   -> <<r.val>>
                                        [] f.ty.k = "Slice" -> Append(v[f.go], r.val)
                                        [] OTHER            -> r.val]]

\* Decoder.unmarshal: the value stored for one element into a value of type
\* ty that holds cur; ok is FALSE when an error is returned
RECURSIVE Unmarshal(_, _, _)
RECURSIVE UnmarshalKids(_, _, _, _)

\* one child element stored into the struct v of type n
UnmarshalKid(kid, n, v, at) ==
    IF at = 0 THEN [ok |-> TRUE, val |-> v]
    ELSE KidStored(v, Fields(n)[at],
                   Unmarshal(kid, KidTarget(Fields(n)[at].ty, v[Fields(n)[at].go]).ty,
                             KidTarget(Fields(n)[at].ty, v[Fields(n)[at].go]).cur))

\* the rest of the children once child k is done
UnmarshalRest(kids, k, n, r) ==
    IF ~r.ok THEN Failed ELSE UnmarshalKids(kids, k + 1, n, r.val)

\* the child elements in document order
UnmarshalKids(kids, k, n, v) ==
    IF k > Len(kids) THEN [ok |-> TRUE, val |-> v]
    ELSE UnmarshalRest(kids, k, n, UnmarshalKid(kids[k], n, v, KidField(n, kids[k].name)))

Unmarshal(node, ty, cur) ==
    CASE ty.n = "string"  -> [ok |-> TRUE, val |-> node.text]
      [] ty.n = "Decimal" -> DecimalUnmarshalXML(node.text)
      [] ty.n = "UUID"    -> NewUUID(node.text)
      [] ty.n = "Date"    -> ParseDate(node.text)
      [] ty.n = "Bool"    -> BoolUnmarshalXML(node.text)
      [] ty.n = "int"     -> CopyInt(node.text)
      [] OTHER ->
            IF NameMismatch(node, ty.n) THEN Failed
            ELSE WithCharData(node, ty.n,
                     UnmarshalKids(node.kids, 1, ty.n,
                         UnmarshalAttrs(node.attrs, 1, ty.n, WithXMLName(node, ty.n, cur))))

\* the invoice filled from the root element, once the input has been read
Rooted(root) ==
    IF ~root.ok THEN Failed
    ELSE Unmarshal(root.node, TStruct("Invoice"), ZeroInvoice)

\* xml.Unmarshal(data, &invoice): the input is read once
XMLUnmarshal(b) == CHOOSE r \in {Rooted(root) : root \in {RootElement(b, 1)}} : TRUE

-----------------------------------------------------------------------------
(* The decoder, pass 2: resolveReferences *)

\* the four header collections: the pointer field of the Invoice, the slice
\* in it, and the pointer field of the InvoiceLine that refers to it
RefKinds ==
    << [header |-> "OrderReferences", entry |-> "OrderReference",
        line |-> "OrderReference"],
       [header |-> "DeliveryNoteReferences", entry |-> "DeliveryNoteReference",
        line |-> "DeliveryNoteReference"],
       [header |-> "OriginalDocumentReferences", entry |-> "OriginalDocumentReference",
        line |-> "OriginalDocumentReference"],
       [header |-> "ContractReferences", entry |-> "ContractReference",
        line |-> "ContractReference"] >>

\* the loop over one header collection: the map built and the errors appended
RECURSIVE CollectIDs(_, _, _, _, _)
CollectIDs(kind, refs, i, seen, out) ==
    IF i > Len(refs) THEN [seen |-> seen, errs |-> out]
    ELSE LET id == refs[i].ID
         IN  IF id = <<>> THEN CollectIDs(kind, refs, i + 1, seen, out)
             ELSE CollectIDs(kind, refs, i + 1, seen \cup {id},
                    IF id \in seen
                    THEN Append(out, NewDecodeError(
                            Path("Invoice." \o kind.header \o "." \o kind.entry, i - 1, ""),
                            Errorf("duplicate id %q", id)))
                    ELSE out)

\* HeaderIDs as it would be with one map shared by the four collections
HeaderIDsShared(inv, kind) ==
    LET others == UNION {IF inv[RefKinds[k].header] = <<>> \/ RefKinds[k] = kind THEN {}
                         ELSE {inv[RefKinds[k].header][1][RefKinds[k].entry][i].ID :
                                 i \in 1..Len(inv[RefKinds[k].header][1][RefKinds[k].entry])}
                         : k \in 1..4}
    IN  IF inv[kind.header] = <<>> THEN [seen |-> others, errs |-> <<>>]
        ELSE CollectIDs(kind, inv[kind.header][1][kind.entry], 1, others, <<>>)

\* the identifiers collected from one header collection
HeaderIDs(inv, kind) ==
    IF inv[kind.header] = <<>> THEN [seen |-> {}, errs |-> <<>>]
    ELSE CollectIDs(kind, inv[kind.header][1][kind.entry], 1, {}, <<>>)

\* LineErrors as it would be if a token resolved against the identifiers
\* of every kind
LineErrorsAnyKind(inv, i) ==
    LET line == inv.InvoiceLines.InvoiceLine[i]
        all  == UNION {HeaderIDs(inv, RefKinds[k]).seen : k \in 1..4}
    IN  Flatten([k \in 1..4 |->
            LET kind == RefKinds[k]
                ptr  == line[kind.line]
            IN  IF ptr # <<>> /\ ptr[1].Ref # <<>> /\ ptr[1].Ref \notin all
                THEN << NewDecodeError(
                          Path("Invoice.InvoiceLines.InvoiceLine", i - 1, "." \o kind.line),
                          Errorf("ref %q not found in header " \o kind.header, ptr[1].Ref)) >>
                ELSE <<>>])

\* the checks of one line: the errors appended for it, kind by kind
LineErrors(inv, i) ==
    LET line == inv.InvoiceLines.InvoiceLine[i]
    IN  Flatten([k \in 1..4 |->
            LET kind == RefKinds[k]
                ptr  == line[kind.line]
            IN  IF ptr # <<>> /\ ptr[1].Ref # <<>>
                   /\ ptr[1].Ref \notin HeaderIDs(inv, kind).seen
                THEN << NewDecodeError(
                          Path("Invoice.InvoiceLines.InvoiceLine", i - 1, "." \o kind.line),
                          Errorf("ref %q not found in header " \o kind.header, ptr[1].Ref)) >>
                ELSE <<>>])

\* resolveReferences as it would be if it returned at the first error
resolveReferencesFirst(inv) ==
    LET all == Flatten([k \in 1..4 |-> HeaderIDs(inv, RefKinds[k]).errs])
                 \o Flatten([i \in 1..Len(inv.InvoiceLines.InvoiceLine) |-> LineErrors(inv, i)])
    IN  IF all = <<>> THEN <<>> ELSE <<all[1]>>

resolveReferences(inv) ==
    Flatten([k \in 1..4 |-> HeaderIDs(inv, RefKinds[k]).errs])
        \o Flatten([i \in 1..Len(inv.InvoiceLines.InvoiceLine) |-> LineErrors(inv, i)])

\* pass 2 on the outcome u of pass 1: the *schema.Invoice (<<>> is nil) and
\* the error
Resolved(u) ==
    IF ~u.ok
    THEN [invoice |-> <<>>, err |-> NewDecodeError(NoPath, Errorf("XML parsing: %w", <<>>))]
    ELSE LET es == resolveReferences(u.val)
         IN  IF Len(es) > 0
             THEN [invoice |-> <<u.val>>, err |-> DecodeErrors(es)]
             ELSE [invoice |-> <<u.val>>, err |-> Nil]

\* DecodeBytes: pass 1 runs once, pass 2 on its outcome
DecodeBytes(b) == CHOOSE r \in {Resolved(u) : u \in {XMLUnmarshal(b)}} : TRUE
-----------------------------------------------------------------------------
(* The validator: validate.go.  Field paths, codes and messages are Go      *)
(* strings; a text of the document is turned into one by GoString.          *)

SeverityError == 0
SeverityWarning == 1

ErrCodeRequiredField == "REQUIRED_FIELD"
ErrCodeInvalidEnum == "INVALID_ENUM"
ErrCodeInvalidLength == "INVALID_LENGTH"
ErrCodeTotalMismatch == "TOTAL_MISMATCH"
ErrCodeVATMismatch == "VAT_MISMATCH"
ErrCodeSchemaViolation == "SCHEMA_VIOLATION"

\* &ValidationError{...}
ValidationError(field, code, severity, msg) ==
    [Field |-> field, Code |-> code, Severity |-> severity, Msg |-> msg]

\* ValidationErrors.HasErrors
HasErrors(list) == \E i \in 1..Len(list) : list[i].Severity = SeverityError

\* if cond { errs = append(errs, e) }
When(cond, e) == IF cond THEN <<e>> ELSE <<>>

\* a severity that strict mode does not raise
severityLenient(o) == SeverityWarning

\* severity := SeverityWarning; if opts.Strict { severity = SeverityError }
severity(o) == IF o.Strict THEN SeverityError ELSE SeverityWarning

\* a text as a Go string
RECURSIVE GoString(_)
GoString(s) == IF s = <<>> THEN "" ELSE Head(s) \o GoString(Tail(s))

\* fmt.Sprintf("%s[%d]", path, i) for the element at place k of a slice
Indexed(path, k) == path \o "[" \o ToString(k - 1) \o "]"

\* fmt.Sprintf("%q", s) for texts without quotes or control characters
Quoted(s) == "\"" \o GoString(s) \o "\""

\* fmt.Sprintf("%v", list) for a []string
RECURSIVE Joined(_)
Joined(list) ==
    IF list = <<>> THEN ""
    ELSE IF Len(list) = 1 THEN GoString(list[1])
    ELSE GoString(list[1]) \o " " \o Joined(Tail(list))

RECURSIVE Pow10(_)
Pow10(k) == IF k = 0 THEN 1 ELSE 10 * Pow10(k - 1)

\* a fraction without its closing zeros
RECURSIVE DropZeros(_)
DropZeros(s) ==
    IF s # <<>> /\ s[Len(s)] = "0" THEN DropZeros(SubSeq(s, 1, Len(s) - 1)) ELSE s

\* the decimal places a float64 of magnitude 1 or more tells apart
Float64Places == 16

\* Decimal.Float64: strconv.ParseFloat of the text, 0 for the empty text and
\* for a text that does not parse.  The number is held as num / 10^exp.  A
\* float64 has 53 bits: the digits of a fraction after place Float64Places
\* are below half the distance between neighbouring float64 of magnitude 1
\* or more, and the nearest float64 is that of the text without them.  The
\* texts validated have at most four decimals before that place and no
\* exponent, hexadecimal, infinity or NaN form.
Float64(d) ==
    LET signed == d # <<>> /\ Head(d) \in {"+", "-"}
        body   == IF signed THEN Tail(d) ELSE d
        dot    == IF \E i \in 1..Len(body) : body[i] = "."
                  THEN CHOOSE i \in 1..Len(body) :
                           body[i] = "." /\ \A j \in 1..(i - 1) : body[j] # "."
                  ELSE 0
        whole  == IF dot = 0 THEN body ELSE SubSeq(body, 1, dot - 1)
        digits == IF dot = 0 THEN <<>> ELSE SubSeq(body, dot + 1, Len(body))
        parsed == /\ AllDigits(whole) /\ AllDigits(digits)
                  /\ Len(whole) + Len(digits) > 0
        frac   == IF parsed /\ NatValue(whole) >= 1 /\ Len(digits) > Float64Places
                  THEN DropZeros(SubSeq(digits, 1, Float64Places))
                  ELSE DropZeros(digits)
        ok     == parsed /\ Len(frac) <= 4
        mag    == NatValue(whole \o frac)
    IN  IF ~ok THEN [num |-> 0, exp |-> 0]
        ELSE [num |-> IF signed /\ Head(d) = "-" THEN 0 - mag ELSE mag, exp |-> Len(frac)]

\* a float64 in ten-thousandths
Scaled(f) == f.num * Pow10(4 - f.exp)

\* Decimal.Equal
Equal(d, other) == Scaled(Float64(d)) = Scaled(Float64(other))

\* fmt.Sprintf("%.4f", f) of a number of ten-thousandths
Fixed4(n) ==
    LET mag == IF n < 0 THEN 0 - n ELSE n
    IN  (IF n < 0 THEN "-" ELSE "") \o ToString(mag \div 10000) \o "."
            \o GoString(Pad(mag % 10000, 4))

\* validateParty (the message's "ICO" is written without its caron)
validateParty(path, party, o) ==
    When(party.PartyIdentification.ID = <<>>,
         ValidationError(path \o ".PartyIdentification.ID", ErrCodeRequiredField, SeverityError,
             "PartyIdentification.ID (ICO) is required"))
    \o When(party.PartyName.Name = <<>>,
         ValidationError(path \o ".PartyName.Name", ErrCodeRequiredField, SeverityError,
             "PartyName.Name is required"))
    \o When(party.PostalAddress.CityName = <<>>,
         ValidationError(path \o ".PostalAddress.CityName", ErrCodeRequiredField, severity(o),
             "PostalAddress.CityName is expected"))
    \o When(party.PostalAddress.Country.IdentificationCode = <<>>,
         ValidationError(path \o ".PostalAddress.Country.IdentificationCode",
             ErrCodeRequiredField, severity(o), "Country.IdentificationCode is expected"))

\* validateInvoiceLine
validateInvoiceLine(path, line, o) ==
    (IF line.ID = <<>>
     THEN << ValidationError(path \o ".ID", ErrCodeRequiredField, SeverityError,
                 "ID is required") >>
     ELSE When(Len(line.ID) > 36,
              ValidationError(path \o ".ID", ErrCodeInvalidLength, severity(o),
                  "ID must be max 36 characters, got " \o ToString(Len(line.ID)))))
    \o When(line.InvoicedQuantity.Value = <<>>,
         ValidationError(path \o ".InvoicedQuantity", ErrCodeRequiredField, severity(o),
             "InvoicedQuantity is expected"))
    \o When(line.Item.Description = <<>>,
         ValidationError(path \o ".Item.Description", ErrCodeRequiredField, severity(o),
             "Item.Description is expected"))

\* validateStructural
validateStructural(inv, o) ==
    When(inv.Version = <<>>,
         ValidationError("Invoice.@version", ErrCodeRequiredField, SeverityError,
             "version attribute is required"))
    \o When(inv.DocumentType < 1 \/ inv.DocumentType > 7,
         ValidationError("Invoice.DocumentType", ErrCodeInvalidEnum, SeverityError,
             "DocumentType must be 1-7, got " \o GoString(FormatInt(inv.DocumentType))))
    \o When(inv.ID = <<>>,
         ValidationError("Invoice.ID", ErrCodeRequiredField, SeverityError, "ID is required"))
    \o When(inv.UUID = <<>>,
         ValidationError("Invoice.UUID", ErrCodeRequiredField, SeverityError,
             "UUID is required"))
    \o When(DateIsZero(inv.IssueDate),
         ValidationError("Invoice.IssueDate", ErrCodeRequiredField, SeverityError,
             "IssueDate is required"))
    \o (IF inv.LocalCurrencyCode = <<>>
        THEN << ValidationError("Invoice.LocalCurrencyCode", ErrCodeRequiredField,
                    SeverityError, "LocalCurrencyCode is required") >>
        ELSE When(Len(inv.LocalCurrencyCode) # 3,
                 ValidationError("Invoice.LocalCurrencyCode", ErrCodeInvalidLength, severity(o),
                     "LocalCurrencyCode must be 3 characters, got "
                         \o ToString(Len(inv.LocalCurrencyCode)))))
    \o When(inv.CurrRate = <<>>,
         ValidationError("Invoice.CurrRate", ErrCodeRequiredField, SeverityError,
             "CurrRate is required"))
    \o When(inv.RefCurrRate = <<>>,
         ValidationError("Invoice.RefCurrRate", ErrCodeRequiredField, SeverityError,
             "RefCurrRate is required"))
    \o validateParty("Invoice.AccountingSupplierParty.Party",
                     inv.AccountingSupplierParty.Party, o)
    \o (IF inv.AccountingCustomerParty = <<>> /\ inv.AnonymousCustomerParty = <<>>
        THEN When(inv.DocumentType # 7,
                 ValidationError("Invoice.AccountingCustomerParty", ErrCodeRequiredField,
                     SeverityError,
                     "AccountingCustomerParty is required (or AnonymousCustomerParty for simplified tax documents)"))
        ELSE IF inv.AccountingCustomerParty # <<>>
        THEN validateParty("Invoice.AccountingCustomerParty.Party",
                           inv.AccountingCustomerParty[1].Party, o)
        ELSE <<>>)
    \o When(inv.InvoiceLines.InvoiceLine = <<>>,
         ValidationError("Invoice.InvoiceLines", ErrCodeRequiredField, SeverityError,
             "at least one InvoiceLine is required"))
    \o Flatten([i \in 1..Len(inv.InvoiceLines.InvoiceLine) |->
           validateInvoiceLine(Indexed("Invoice.InvoiceLines.InvoiceLine", i),
                               inv.InvoiceLines.InvoiceLine[i], o)])
    \o When(inv.TaxTotal.TaxSubTotal = <<>>,
         ValidationError("Invoice.TaxTotal.TaxSubTotal", ErrCodeRequiredField, severity(o),
             "at least one TaxSubTotal is expected"))
    \o When(inv.LegalMonetaryTotal.TaxExclusiveAmount = <<>>
                /\ inv.LegalMonetaryTotal.TaxInclusiveAmount = <<>>,
         ValidationError("Invoice.LegalMonetaryTotal", ErrCodeRequiredField, severity(o),
             "TaxExclusiveAmount or TaxInclusiveAmount should be set"))

\* a rule that asks only credit notes for their original document, and takes
\* its severity from the mode
validateOriginalDocumentLinkCreditOnly(inv, o) ==
    When(inv.DocumentType = 2 /\ inv.OriginalDocumentReferences = <<>>,
         ValidationError("Invoice.OriginalDocumentReferences", ErrCodeRequiredField,
             severity(o), "DocumentType 2 requires OriginalDocumentReferences"))

\* validateOriginalDocumentLink
validateOriginalDocumentLink(inv, o) ==
    When(/\ inv.DocumentType \in {2, 3, 6}
         /\ \/ inv.OriginalDocumentReferences = <<>>
            \/ inv.OriginalDocumentReferences[1].OriginalDocumentReference = <<>>,
         ValidationError("Invoice.OriginalDocumentReferences", ErrCodeRequiredField,
             SeverityError,
             "DocumentType " \o GoString(FormatInt(inv.DocumentType))
                 \o " requires OriginalDocumentReferences with at least one OriginalDocumentReference"))

\* the local amounts that have a foreign-currency counterpart named ...Curr,
\* in the order in which the two currency checks go through them
LegalMonetaryTotalAmounts ==
    << "TaxExclusiveAmount", "TaxInclusiveAmount", "PayableAmount", "PayableRoundingAmount",
       "PaidDepositsAmount", "AlreadyClaimedTaxExclusiveAmount",
       "AlreadyClaimedTaxInclusiveAmount", "DifferenceTaxExclusiveAmount",
       "DifferenceTaxInclusiveAmount" >>
TaxTotalAmounts == << "TaxAmount" >>
TaxSubTotalAmounts ==
    << "TaxableAmount", "TaxAmount", "TaxInclusiveAmount", "AlreadyClaimedTaxableAmount",
       "AlreadyClaimedTaxAmount", "AlreadyClaimedTaxInclusiveAmount", "DifferenceTaxableAmount",
       "DifferenceTaxAmount", "DifferenceTaxInclusiveAmount" >>
InvoiceLineAmounts == << "LineExtensionAmount", "LineExtensionAmountTaxInclusive" >>
NonTaxedDepositAmounts == << "DepositAmount" >>
TaxedDepositAmounts == << "TaxableDepositAmount", "TaxInclusiveDepositAmount" >>

\* a check that looks at the first amount of an entity only
CurrRequiredFirst(path, v, names, o) ==
    When(v[names[1]] # <<>> /\ v[names[1] \o "Curr"] = <<>>,
         ValidationError(path \o "." \o names[1] \o "Curr", ErrCodeRequiredField, severity(o),
             names[1] \o "Curr required when ForeignCurrencyCode is set"))

\* the checks of one entity when a foreign currency is declared
CurrRequired(path, v, names, o) ==
    Flatten([k \in 1..Len(names) |->
        When(v[names[k]] # <<>> /\ v[names[k] \o "Curr"] = <<>>,
             ValidationError(path \o "." \o names[k] \o "Curr", ErrCodeRequiredField,
                 severity(o),
                 names[k] \o "Curr required when ForeignCurrencyCode is set"))])

\* the checks of one entity when no foreign currency is declared
CurrForbidden(path, v, names, o) ==
    Flatten([k \in 1..Len(names) |->
        When(v[names[k] \o "Curr"] # <<>>,
             ValidationError(path \o "." \o names[k] \o "Curr", ErrCodeSchemaViolation,
                 severity(o),
                 names[k] \o "Curr must not be set without ForeignCurrencyCode"))])

\* the entities that bear amounts, in the order both checks visit them
CurrencyFields(inv, o, Check(_, _, _, _)) ==
    Check("Invoice.LegalMonetaryTotal", inv.LegalMonetaryTotal, LegalMonetaryTotalAmounts, o)
    \o Check("Invoice.TaxTotal", inv.TaxTotal, TaxTotalAmounts, o)
    \o Flatten([i \in 1..Len(inv.TaxTotal.TaxSubTotal) |->
           Check(Indexed("Invoice.TaxTotal.TaxSubTotal", i), inv.TaxTotal.TaxSubTotal[i],
                 TaxSubTotalAmounts, o)])
    \o Flatten([i \in 1..Len(inv.InvoiceLines.InvoiceLine) |->
           Check(Indexed("Invoice.InvoiceLines.InvoiceLine", i),
                 inv.InvoiceLines.InvoiceLine[i], InvoiceLineAmounts, o)])
    \o (IF inv.NonTaxedDeposits = <<>> THEN <<>>
        ELSE Flatten([i \in 1..Len(inv.NonTaxedDeposits[1].NonTaxedDeposit) |->
                 Check(Indexed("Invoice.NonTaxedDeposits.NonTaxedDeposit", i),
                       inv.NonTaxedDeposits[1].NonTaxedDeposit[i], NonTaxedDepositAmounts, o)]))
    \o (IF inv.TaxedDeposits = <<>> THEN <<>>
        ELSE Flatten([i \in 1..Len(inv.TaxedDeposits[1].TaxedDeposit) |->
                 Check(Indexed("Invoice.TaxedDeposits.TaxedDeposit", i),
                       inv.TaxedDeposits[1].TaxedDeposit[i], TaxedDepositAmounts, o)]))

\* validateForeignCurrencyFieldsPresent
validateForeignCurrencyFieldsPresent(inv, o) == CurrencyFields(inv, o, CurrRequired)

\* validateNoForeignCurrencyFields
validateNoForeignCurrencyFields(inv, o) == CurrencyFields(inv, o, CurrForbidden)

\* validateCurrencyConsistency
validateCurrencyConsistency(inv, o) ==
    LET one == <<"1">>
    IN  IF inv.ForeignCurrencyCode # <<>>
        THEN When(inv.ForeignCurrencyCode = inv.LocalCurrencyCode,
                  ValidationError("Invoice.ForeignCurrencyCode", ErrCodeSchemaViolation,
                      SeverityError, "ForeignCurrencyCode must differ from LocalCurrencyCode"))
             \o validateForeignCurrencyFieldsPresent(inv, o)
        ELSE When(inv.CurrRate # <<>> /\ ~Equal(inv.CurrRate, one),
                  ValidationError("Invoice.CurrRate", ErrCodeSchemaViolation, severity(o),
                      "CurrRate must be 1 when no ForeignCurrencyCode, got "
                          \o GoString(inv.CurrRate)))
             \o When(inv.RefCurrRate # <<>> /\ ~Equal(inv.RefCurrRate, one),
                  ValidationError("Invoice.RefCurrRate", ErrCodeSchemaViolation, severity(o),
                      "RefCurrRate must be 1 when no ForeignCurrencyCode, got "
                          \o GoString(inv.RefCurrRate)))
             \o validateNoForeignCurrencyFields(inv, o)

\* a rule that reports a VAT-inapplicable document once, at its first
\* VAT-applicable line
validateVATConsistencyOnce(inv, o) ==
    LET lines == inv.InvoiceLines.InvoiceLine
        hit   == {i \in 1..Len(lines) : lines[i].ClassifiedTaxCategory.VATApplicable}
    IN  When(~inv.VATApplicable /\ hit # {},
             ValidationError(
                 Indexed("Invoice.InvoiceLines.InvoiceLine",
                         CHOOSE i \in hit : \A j \in hit : i <= j)
                     \o ".ClassifiedTaxCategory.VATApplicable",
                 ErrCodeVATMismatch, SeverityError,
                 "Invoice VATApplicable is false, but line item has VATApplicable=true"))

\* validateVATConsistency
validateVATConsistency(inv, o) ==
    IF inv.VATApplicable THEN <<>>
    ELSE Flatten([i \in 1..Len(inv.InvoiceLines.InvoiceLine) |->
             When(inv.InvoiceLines.InvoiceLine[i].ClassifiedTaxCategory.VATApplicable,
                  ValidationError(
                      Indexed("Invoice.InvoiceLines.InvoiceLine", i)
                          \o ".ClassifiedTaxCategory.VATApplicable",
                      ErrCodeVATMismatch, SeverityError,
                      "Invoice VATApplicable is false, but line item has VATApplicable=true"))])

\* a rule for which a tertiary identifier requires the primary one only
validateItemIdentificationPrimaryOnly(inv, o) ==
    Flatten([i \in 1..Len(inv.InvoiceLines.InvoiceLine) |->
        LET item == inv.InvoiceLines.InvoiceLine[i].Item
            path == Indexed("Invoice.InvoiceLines.InvoiceLine", i) \o ".Item"
        IN  When(/\ item.SecondarySellersItemIdentification # <<>>
                 /\ item.SellersItemIdentification = <<>>,
                 ValidationError(path \o ".SecondarySellersItemIdentification",
                     ErrCodeSchemaViolation, severity(o),
                     "SecondarySellersItemIdentification requires SellersItemIdentification"))
            \o When(/\ item.TertiarySellersItemIdentification # <<>>
                    /\ item.SellersItemIdentification = <<>>,
                 ValidationError(path \o ".TertiarySellersItemIdentification",
                     ErrCodeSchemaViolation, severity(o),
                     "TertiarySellersItemIdentification requires SellersItemIdentification"))])

\* validateItemIdentificationHierarchy
validateItemIdentificationHierarchy(inv, o) ==
    Flatten([i \in 1..Len(inv.InvoiceLines.InvoiceLine) |->
        LET item == inv.InvoiceLines.InvoiceLine[i].Item
            path == Indexed("Invoice.InvoiceLines.InvoiceLine", i) \o ".Item"
        IN  When(/\ item.SecondarySellersItemIdentification # <<>>
                 /\ item.SellersItemIdentification = <<>>,
                 ValidationError(path \o ".SecondarySellersItemIdentification",
                     ErrCodeSchemaViolation, severity(o),
                     "SecondarySellersItemIdentification requires SellersItemIdentification"))
            \o When(/\ item.TertiarySellersItemIdentification # <<>>
                    /\ \/ item.SellersItemIdentification = <<>>
                       \/ item.SecondarySellersItemIdentification = <<>>,
                 ValidationError(path \o ".TertiarySellersItemIdentification",
                     ErrCodeSchemaViolation, severity(o),
                     "TertiarySellersItemIdentification requires both SellersItemIdentification and SecondarySellersItemIdentification"))])

\* seenUnitCodes after the batches of a line: the non-empty unit codes, each
\* at its first occurrence
RECURSIVE SeenUnitCodes(_)
SeenUnitCodes(batches) ==
    IF batches = <<>> THEN <<>>
    ELSE LET seen == SeenUnitCodes(SubSeq(batches, 1, Len(batches) - 1))
             code == batches[Len(batches)].Quantity.UnitCode
         IN  IF code = <<>> \/ code \in Range(seen) THEN seen ELSE Append(seen, code)

\* batchQuantitySum after the batches of a line, in ten-thousandths
RECURSIVE BatchQuantitySum(_)
BatchQuantitySum(batches) ==
    IF batches = <<>> THEN 0
    ELSE BatchQuantitySum(SubSeq(batches, 1, Len(batches) - 1))
             + Scaled(Float64(batches[Len(batches)].Quantity.Value))

\* a loop body that compares the quantities and leaves the unit codes alone
StoreBatchesOfLineSumOnly(line, i, o) ==
    IF line.Item.StoreBatches = <<>> THEN <<>>
    ELSE IF line.Item.StoreBatches[1].StoreBatch = <<>> THEN <<>>
    ELSE
    LET batchQuantitySum == BatchQuantitySum(line.Item.StoreBatches[1].StoreBatch)
        invoicedQty == Scaled(Float64(line.InvoicedQuantity.Value))
        diff == batchQuantitySum - invoicedQty
    IN  When(diff > 1 \/ diff < 0 - 1,
             ValidationError(Indexed("Invoice.InvoiceLines.InvoiceLine", i) \o ".Item.StoreBatches",
                 ErrCodeTotalMismatch, severity(o),
                 "StoreBatch Quantity sum (" \o Fixed4(batchQuantitySum)
                     \o ") must equal InvoicedQuantity (" \o Fixed4(invoicedQty) \o ")"))

\* the body of the loop of validateStoreBatches for the line at place i
StoreBatchesOfLine(line, i, o) ==
    IF line.Item.StoreBatches = <<>> THEN <<>>
    ELSE IF line.Item.StoreBatches[1].StoreBatch = <<>> THEN <<>>
    ELSE
    LET batches == line.Item.StoreBatches[1].StoreBatch
        path == Indexed("Invoice.InvoiceLines.InvoiceLine", i)
        lineUnitCode == line.InvoicedQuantity.UnitCode
        seenUnitCodes == SeenUnitCodes(batches)
        batchQuantitySum == BatchQuantitySum(batches)
        invoicedQty == Scaled(Float64(line.InvoicedQuantity.Value))
        diff == batchQuantitySum - invoicedQty
        \* tolerance := 0.0001
        tolerance == 1
    IN  Flatten([j \in 1..Len(batches) |->
            LET batchUnitCode == batches[j].Quantity.UnitCode
            IN  When(/\ lineUnitCode # <<>> /\ batchUnitCode # <<>>
                     /\ batchUnitCode # lineUnitCode,
                     ValidationError(
                         Indexed(path \o ".Item.StoreBatches.StoreBatch", j) \o ".Quantity",
                         ErrCodeSchemaViolation, severity(o),
                         "StoreBatch unitCode " \o Quoted(batchUnitCode)
                             \o " must match InvoicedQuantity unitCode "
                             \o Quoted(lineUnitCode)))])
        \o When(Len(seenUnitCodes) > 1,
             ValidationError(path \o ".Item.StoreBatches", ErrCodeSchemaViolation, severity(o),
                 "All StoreBatch Quantity unitCodes must be the same, found: ["
                     \o Joined(seenUnitCodes) \o "]"))
        \o When(diff > tolerance \/ diff < 0 - tolerance,
             ValidationError(path \o ".Item.StoreBatches", ErrCodeTotalMismatch, severity(o),
                 "StoreBatch Quantity sum (" \o Fixed4(batchQuantitySum)
                     \o ") must equal InvoicedQuantity (" \o Fixed4(invoicedQty) \o ")"))

\* validateStoreBatches
validateStoreBatches(inv, o) ==
    Flatten([i \in 1..Len(inv.InvoiceLines.InvoiceLine) |->
        StoreBatchesOfLine(inv.InvoiceLines.InvoiceLine[i], i, o)])

\* validateSemantic
validateSemantic(inv, o) ==
    validateOriginalDocumentLink(inv, o)
    \o validateCurrencyConsistency(inv, o)
    \o validateVATConsistency(inv, o)
    \o validateItemIdentificationHierarchy(inv, o)
    \o validateStoreBatches(inv, o)

\* a validation that runs the business rules only on a structurally sound
\* document
ValidateInvoiceStructuralFirst(inv, o) ==
    LET errs1 == validateStructural(inv, o)
    IN  IF HasErrors(errs1) THEN errs1 ELSE errs1 \o validateSemantic(inv, o)

\* ValidateInvoiceWithOptions
ValidateInvoiceWithOptions(inv, o) ==
    validateStructural(inv, o) \o validateSemantic(inv, o)

-----------------------------------------------------------------------------
(* Input documents.  An input buffer is an ISDOC file as the fixtures hold  *)
(* it: the declaration, the root element with its namespace and version,   *)
(* attributes written as attributes, character data as character data,     *)
(* elements in declaration order.                                          *)

\* the text of an attribute value, with the named entities
AttrText(s) ==
    [i \in 1..Len(s) |->
        IF s[i] = "\"" THEN "&quot;" ELSE IF s[i] = "'" THEN "&apos;" ELSE EscapeChar(s[i])]

RECURSIVE Wire(_, _, _)
Wire(name, v, ty) ==
    CASE ty.k = "Ptr"    -> IF v = <<>> THEN <<>> ELSE Wire(name, v[1], TStruct(ty.n))
      [] ty.k = "Slice"  -> Flatten([i \in 1..Len(v) |-> Wire(name, v[i], TStruct(ty.n))])
      [] ty.k = "String" ->
            IF v = <<>> THEN <<>>
            ELSE <<"<", name, ">">> \o EscapeText(v) \o <<"</", name, ">">>
      [] ty.k = "Int"    ->
            IF v = 0 THEN <<>>
            ELSE <<"<", name, ">">> \o FormatInt(v) \o <<"</", name, ">">>
      [] ty.k = "Bool"   -> <<"<", name, ">">> \o BoolString(v) \o <<"</", name, ">">>
      [] ty = TDate      ->
            IF DateIsZero(v) THEN <<>>
            ELSE <<"<", name, ">">> \o DateString(v) \o <<"</", name, ">">>
      [] OTHER ->
            LET fs == Fields(ty.n)
                attrs == Flatten([i \in 1..Len(fs) |->
                            IF HasFlag(fs[i], "attr") /\ v[fs[i].go] # <<>>
                            THEN <<" ", fs[i].tag[1], "=", "\"">>
                                    \o AttrText(v[fs[i].go]) \o <<"\"">>
                            ELSE <<>>])
                cdata == Flatten([i \in 1..Len(fs) |->
                            IF HasFlag(fs[i], "chardata") THEN EscapeText(v[fs[i].go])
                            ELSE <<>>])
                kids  == Flatten([i \in 1..Len(fs) |->
                            IF \/ HasFlag(fs[i], "attr") \/ HasFlag(fs[i], "chardata")
                               \/ fs[i].ty = TXMLName
                            THEN <<>>
                            ELSE Wire(fs[i].tag[1], v[fs[i].go], fs[i].ty)])
            IN  <<"<", name>>
                  \o (IF name = "Invoice" THEN <<" ", Namespace>> ELSE <<>>)
                  \o attrs
                  \o (IF cdata = <<>> /\ kids = <<>> THEN <<"/", ">">>
                      ELSE <<">">> \o cdata \o kids \o <<"</", name, ">">>)
                  \o <<"\n">>

\* the file of a document
File(doc) == <<XMLDecl, "\n">> \o Wire("Invoice", doc, TStruct("Invoice"))

\* the first place where the start tag <name> ends, 0 if there is none
TagEnd(b, name) ==
    LET at == {i \in 3..Len(b) : b[i] = ">" /\ b[i - 1] = name /\ b[i - 2] = "<"}
    IN  IF at = {} THEN 0 ELSE CHOOSE i \in at : \A j \in at : i <= j

\* a buffer with the text of the first <name> leaf replaced
WithLeaf(b, name, text) ==
    LET i == TagEnd(b, name)
        j == CHOOSE k \in (i + 1)..Len(b) :
                b[k] = "</" /\ \A m \in (i + 1)..(k - 1) : b[m] # "</"
    IN  IF i = 0 THEN b ELSE SubSeq(b, 1, i) \o text \o SubSeq(b, j, Len(b))

\* the ways a file is damaged before it is decoded; "none" leaves it whole
TextDamage == {"empty", "text", "truncated", "end tag", "root", "entity"}
LeafDamage == {"int", "bool", "date", "uuid", "decimal"}
Damages == {"none", "trailing"} \cup TextDamage \cup LeafDamage

Damage(b, how) ==
    CASE how = "none"      -> b
      [] how = "empty"     -> <<>>
      [] how = "text"      -> <<"n", "o", "t", " ", "x", "m", "l">>
      [] how = "truncated" -> SubSeq(b, 1, Len(b) - 4)
      [] how = "trailing"  -> b \o <<"<", "/", "&", "<">>
      [] how = "end tag"   -> SubSeq(b, 1, Len(b) - 3) \o <<"Item", ">", "\n">>
      [] how = "root"      ->
            [i \in 1..Len(b) |->
                IF b[i] = "Invoice" /\ i \in {4, Len(b) - 2} THEN "Item" ELSE b[i]]
      [] how = "entity"    -> WithLeaf(b, "ID", <<"R", "&", "D">>)
      [] how = "int"       -> WithLeaf(b, "DocumentType", <<"1", "x">>)
      [] how = "bool"      -> WithLeaf(b, "VATApplicable", <<"y", "e", "s">>)
      [] how = "date"      -> WithLeaf(b, "IssueDate", <<"2", "0", "2", "4", "-", "0", "2", "-", "3", "0">>)
      [] how = "uuid"      -> WithLeaf(b, "UUID", <<"1", "2", "3">>)
      [] how = "decimal"   -> WithLeaf(b, "CurrRate", <<"1", ",", "5">>)
-----------------------------------------------------------------------------
(* The documents of the model *)

SampleUUID ==
    <<"1", "2", "3", "4", "5", "6", "7", "8", "-", "1", "2", "3", "4", "-">>
        \o <<"1", "2", "3", "4", "-", "1", "2", "3", "4", "-">>
        \o <<"1", "2", "3", "4", "5", "6", "7", "8", "9", "0", "1", "2">>

SampleParty(id, name, city) ==
    [Zero(TStruct("Party")) EXCEPT
        !.PartyIdentification.ID = id,
        !.PartyName.Name = name,
        !.PostalAddress.CityName = city,
        !.PostalAddress.Country.IdentificationCode = <<"C", "Z">>]

\* line k of a sample document: ten pieces, two store batches of five, the
\* first line referring to order r1 and every later one to an order r9 that
\* no header declares
SampleLine(k) ==
    [ZeroLine EXCEPT
        !.ID = NatText(k),
        !.OrderReference =
            << [Ref |-> IF k = 1 THEN <<"r", "1">> ELSE <<"r", "9">>, LineID |-> <<"1">>] >>,
        !.InvoicedQuantity = [Value |-> <<"1", "0">>, UnitCode |-> <<"C", "6", "2">>],
        !.LineExtensionAmount = <<"1", "0", "0">>,
        !.LineExtensionAmountTaxInclusive = <<"1", "2", "1">>,
        !.ClassifiedTaxCategory =
            [Percent |-> <<"2", "1">>, VATCalculationMethod |-> 0, VATApplicable |-> TRUE],
        !.Item =
            [Zero(TStruct("Item")) EXCEPT
                !.Description = <<"b", "o", "x">>,
                !.SellersItemIdentification = << [ID |-> <<"s", "1">>] >>,
                !.StoreBatches =
                    << [StoreBatch |->
                          << [Name |-> <<"b", "1">>,
                              Quantity |-> [Value |-> <<"5">>, UnitCode |-> <<"C", "6", "2">>]],
                             [Name |-> <<"b", "2">>,
                              Quantity |-> [Value |-> <<"5">>, UnitCode |-> <<>>]] >>] >>]]

SampleSubTotal ==
    [Zero(TStruct("TaxSubTotal")) EXCEPT
        !.TaxableAmount = <<"1", "0", "0">>,
        !.TaxAmount = <<"2", "1">>,
        !.TaxInclusiveAmount = <<"1", "2", "1">>]

\* the invoice of the parsing example, with n lines
Sample(n) ==
    [ZeroInvoice EXCEPT
        !.Version = <<"6", ".", "0", ".", "2">>,
        !.DocumentType = 1,
        !.ID = <<"F", "V", "-", "1">>,
        !.UUID = SampleUUID,
        !.IssueDate = [y |-> 2024, m |-> 2, d |-> 29],
        !.VATApplicable = TRUE,
        !.LocalCurrencyCode = <<"C", "Z", "K">>,
        !.CurrRate = <<"1">>,
        !.RefCurrRate = <<"1">>,
        !.AccountingSupplierParty.Party =
            SampleParty(<<"1", "2">>, <<"S", " ", "&", " ", "T">>, <<"P", "r", "a", "h", "a">>),
        !.AccountingCustomerParty =
            << [Party |-> SampleParty(<<"8", "7">>, <<"C", "u", "s", "t">>, <<"B", "r", "n", "o">>)] >>,
        !.OrderReferences =
            << [OrderReference |-> << [ID |-> <<"r", "1">>, SalesOrderID |-> <<"o", "1">>] >>] >>,
        !.InvoiceLines.InvoiceLine = [k \in 1..n |-> SampleLine(k)],
        !.TaxTotal.TaxSubTotal = <<SampleSubTotal>>,
        !.TaxTotal.TaxAmount = <<"2", "1">>,
        !.LegalMonetaryTotal.TaxExclusiveAmount = <<"1", "0", "0">>,
        !.LegalMonetaryTotal.TaxInclusiveAmount = <<"1", "2", "1">>,
        !.LegalMonetaryTotal.PayableAmount = <<"1", "2", "1">>]

\* a document with nothing set but its lines
Bare(n) ==
    [ZeroInvoice EXCEPT
        !.InvoiceLines.InvoiceLine = [k \in 1..n |-> SampleLine(k)]]

\* texts for the version attribute and the identifier
Versions ==
    { <<"6", ".", "0", ".", "2">>, <<"6", "\"", "2">>, <<"a", "<", "b">>,
      <<"R", "&", "D">>, <<>> }
IDs ==
    { <<"F", "V", "-", "1">>, <<"a", "<", "b">>, <<"&", ">", "'", "\"">>,
      <<" ", "x", "\n">>, <<>> }

CodecDocs ==
    { [base EXCEPT !.Version = ver, !.ID = id] :
        base \in {Sample(n) : n \in 0..MaxLines} \cup {Bare(n) : n \in 0..MaxLines},
        ver \in Versions, id \in IDs }
-----------------------------------------------------------------------------
(* The Ordering Table, ordering.Sequence: type name -> element names in     *)
(* schema order.  The generated table is fixed configuration data; the      *)
(* model runs with each of three tables.                                    *)

\* the element names of a struct type in declaration order
ElementNames(n) ==
    LET fs == SelectSeq(Fields(n), IsElement)
    IN  [i \in 1..Len(fs) |-> fs[i].tag[1]]

Reverse(q) == [i \in 1..Len(q) |-> q[Len(q) + 1 - i]]

Tabulated == {n \in StructNames : ElementNames(n) # <<>>}

\* every composite type listed, in the order of the declarations
DeclaredTable == [n \in Tabulated |-> ElementNames(n)]
\* every composite type listed, in the opposite order
ReversedTable == [n \in Tabulated |-> Reverse(ElementNames(n))]
\* the root type alone listed
RootTable == [n \in {"Invoice"} |-> Reverse(ElementNames("Invoice"))]

Tables == {DeclaredTable, ReversedTable, RootTable}

-----------------------------------------------------------------------------
(* The caller of the codec: a file is decoded, or a document is built in    *)
(* memory; the document held is encoded; the bytes are decoded again.       *)

\* DefaultValidateOptions
DefaultValidateOptions ==
    [Strict |-> FALSE, AllowRoundingTolerance |-> TRUE, Tolerance |-> <<"0", ".", "0", "1">>]

Idle ==
    /\ calls = <<>> /\ made = <<>>
    /\ invoice = <<>> /\ decErr = Nil
    /\ encoded = <<>> /\ encErr = Nil
    /\ invoice2 = <<>> /\ decErr2 = Nil
    /\ opts = DefaultValidateOptions /\ errs = <<>>
    /\ pc = "start"

Init ==
    /\ ordering \in Tables
    /\ given \in [doc : CodecDocs, damage : {"none"}]
    /\ \E file \in {File(given.doc)} : data = Damage(file, given.damage)
    /\ Idle

\* invoice, err := isdoc.DecodeBytes(data)
Decode ==
    /\ pc = "start"
    /\ \E r \in {DecodeBytes(data)} :
           /\ invoice' = r.invoice
           /\ decErr' = r.err
           /\ pc' = IF r.invoice = <<>> THEN "failed" ELSE "decoded"
    /\ UNCHANGED <<calls, made, ordering, given, data, encoded, encErr, invoice2, decErr2, opts, errs>>

\* invoice := &schema.Invoice{...}
Build ==
    /\ pc = "start"
    /\ given.damage = "none"
    /\ invoice' = <<given.doc>>
    /\ pc' = "built"
    /\ UNCHANGED <<calls, made, ordering, given, data, decErr, encoded, encErr, invoice2, decErr2,
                   opts, errs>>

\* xmlData, err := isdoc.EncodeBytes(invoice)
EncodeStep ==
    /\ pc \in {"decoded", "built"}
    /\ \E r \in {EncodeBytes(ordering, invoice[1])} :
           /\ encoded' = r.data
           /\ encErr' = r.err
    /\ pc' = IF pc = "decoded" THEN "encoded" ELSE "built encoded"
    /\ UNCHANGED <<calls, made, ordering, given, data, invoice, decErr, invoice2, decErr2, opts, errs>>

\* decoded, err := isdoc.DecodeBytes(xmlData)
Redecode ==
    /\ pc \in {"encoded", "built encoded"}
    /\ encErr = Nil
    /\ \E r \in {DecodeBytes(encoded)} :
           /\ invoice2' = r.invoice
           /\ decErr2' = r.err
    /\ pc' = IF pc = "encoded" THEN "redecoded" ELSE "built redecoded"
    /\ UNCHANGED <<calls, made, ordering, given, data, invoice, decErr, encoded, encErr, opts, errs>>

Next == Decode \/ Build \/ EncodeStep \/ Redecode

Spec == Init /\ [][Next]_vars
-----------------------------------------------------------------------------
(* Properties of the codec *)

\* the elements of a node that carry a given name, in document order
KidsNamed(node, name) == SelectSeq(node.kids, LAMBDA k : k.name = name)

\* the struct type a field holds, behind its pointer or slice
IsComposite(ty) == ty.k \in {"Ptr", "Slice"} \/ (ty.k = "Struct" /\ ty # TDate /\ ty # TXMLName)

\* the place of a name in a sequence of names, 0 if it is not in it
Position(q, x) ==
    IF \E i \in 1..Len(q) : q[i] = x
    THEN CHOOSE i \in 1..Len(q) : q[i] = x /\ \A j \in 1..(i - 1) : q[j] # x
    ELSE 0

\* the encoded bytes read back as a tree
EncodedTree == RootElement(encoded, 1)

\* C1: for a document D returned by a successful decode, decoding the
\* encoded bytes of D succeeds and yields the same identifier, UUID,
\* document-type code, issue date and number of lines.
RoundTripPreservesRequired ==
    pc = "redecoded" =>
        /\ invoice2 # <<>>
        /\ invoice2[1].ID = invoice[1].ID
        /\ invoice2[1].UUID = invoice[1].UUID
        /\ invoice2[1].DocumentType = invoice[1].DocumentType
        /\ invoice2[1].IssueDate = invoice[1].IssueDate
        /\ Len(invoice2[1].InvoiceLines.InvoiceLine) = Len(invoice[1].InvoiceLines.InvoiceLine)

\* the order in which the children of a composite of type n are to appear:
\* the table's, or the declaration order of the fields when n is not listed
ChildOrder(n) ==
    IF n \in DOMAIN ordering THEN ordering[n]
    ELSE [i \in 1..Len(Fields(n)) |-> Fields(n)[i].tag[1]]

RECURSIVE InOrder(_, _)
InOrder(node, n) ==
    LET order  == ChildOrder(n)
        pos(k) == Position(order, node.kids[k].name)
    IN  /\ \A k \in 1..Len(node.kids) : pos(k) > 0
        /\ \A k \in 1..(Len(node.kids) - 1) : pos(k) <= pos(k + 1)
        /\ \A k \in 1..Len(node.kids) :
              LET f == Fields(n)[extractFields(n)[node.kids[k].name]]
              IN  IsComposite(f.ty) => InOrder(node.kids[k], f.ty.n)

\* C6: the children of a composite whose type the Ordering Table lists
\* appear in the table's order, and the children of a composite it does not
\* list appear in the declaration order of the fields.
ChildrenInTableOrder ==
    (pc \in {"encoded", "built encoded"} /\ EncodedTree.ok) =>
        InOrder(EncodedTree.node, "Invoice")

\* a table that is not in declaration order was followed at the root, and
\* the lines, which it does not list, were written by declaration order
ChildrenInTableOrderWitness ==
    /\ pc = "encoded" /\ EncodedTree.ok
    /\ ordering = RootTable
    /\ Len(EncodedTree.node.kids) > 2
    /\ Len(invoice[1].InvoiceLines.InvoiceLine) = MaxLines

\* the semantic zero value of a type; a boolean has none
SemanticZero(v, ty) ==
    CASE ty.k = "Bool"   -> FALSE
      [] ty.k = "String" -> v = <<>>
      [] ty.k = "Int"    -> v = 0
      [] ty.k = "Ptr"    -> v = <<>>
      [] ty.k = "Slice"  -> v = <<>>
      [] ty = TDate      -> DateIsZero(v)
      [] OTHER           -> FALSE

\* every field of v is in the element written for v exactly when it is not
\* zero: an attribute field as an attribute, a character data field as the
\* text, every other field as a child element
RECURSIVE Emitted(_, _, _)
Emitted(node, v, n) ==
    \A i \in 1..Len(Fields(n)) :
        LET f    == Fields(n)[i]
            x    == v[f.go]
            kids == KidsNamed(node, f.tag[1])
            present ==
                IF HasFlag(f, "attr") THEN \E a \in Range(node.attrs) : a.name = f.tag[1]
                ELSE IF HasFlag(f, "chardata") THEN TrimSpace(node.text) # <<>>
                ELSE kids # <<>>
        IN  \/ f.ty = TXMLName
            \/ /\ present <=> ~SemanticZero(x, f.ty)
               /\ (f.ty.k = "Slice") =>
                     /\ Len(kids) = Len(x)
                     /\ \A k \in 1..Len(kids) : Emitted(kids[k], x[k], f.ty.n)
               /\ (f.ty.k = "Ptr" /\ x # <<>>) =>
                     \A k \in 1..Len(kids) : Emitted(kids[k], x[1], f.ty.n)
               /\ (f.ty.k = "Struct" /\ IsComposite(f.ty)) =>
                     \A k \in 1..Len(kids) : Emitted(kids[k], x, f.ty.n)

\* C7: on encode a field is omitted exactly when it holds the semantic zero
\* value of its type, every other field is emitted, and a boolean is always
\* emitted.
OmittedExactlyWhenZero ==
    (pc \in {"encoded", "built encoded"} /\ EncodedTree.ok) =>
        Emitted(EncodedTree.node, invoice[1], "Invoice")

\* C8: encoding performs no validation and no reference check: it returns
\* bytes and no error for every document held in memory.
EncodeAlwaysSucceeds ==
    pc \in {"encoded", "built encoded", "redecoded", "built redecoded"} =>
        /\ encErr = Nil
        /\ encoded = Encode(ordering, invoice[1])
        /\ encoded # <<>>

\* a decoded document with no identifier, no UUID and a line whose order
\* reference resolves to nothing has been encoded
EncodeAlwaysSucceedsWitness ==
    /\ pc = "encoded"
    /\ decErr.type = "DecodeErrors"
    /\ invoice[1].ID = <<>> /\ invoice[1].UUID = <<>>
    /\ encErr = Nil /\ encoded # <<>>

\* C9: every scalar the encoder writes, the version attribute of the root
\* included, is escaped: the output is well-formed and decodes back to the
\* same texts.
WrittenTextDecodesBack ==
    pc \in {"redecoded", "built redecoded"} =>
        /\ invoice2 # <<>>
        /\ invoice2[1].Version = invoice[1].Version
        /\ invoice2[1].ID = invoice[1].ID
        /\ invoice2[1].AccountingSupplierParty = invoice[1].AccountingSupplierParty
        /\ invoice2[1].LocalCurrencyCode = invoice[1].LocalCurrencyCode
-----------------------------------------------------------------------------
(* Decoding alone: files with references and damaged files *)

\* the sequences over a set of at most n elements
SeqsUpTo(S, n) == UNION {[1..k -> S] : k \in 0..n}

\* identifiers a header declares, and tokens a line carries: Absent is a
\* missing element, r3 a token no header declares
RefIDs == {<<"r", "1">>, <<"r", "2">>}
Absent == [some |-> FALSE, val |-> <<>>]
Some(x) == [some |-> TRUE, val |-> x]
HeaderChoices ==
    {Absent} \cup {Some(ids) : ids \in SeqsUpTo(RefIDs, MaxRefs) \cup {<<<<>>, <<>>>>}}
FewHeaderChoices ==
    {Absent, Some(<< <<"r", "1">> >>), Some(<< <<"r", "1">>, <<"r", "1">> >>)}
Tokens == {Absent, Some(<<>>), Some(<<"r", "1">>), Some(<<"r", "3">>)}
FewTokens == {Some(<<"r", "1">>), Some(<<"r", "3">>)}

\* the header collection of a kind declaring the given identifiers
Header(kind, ids) ==
    IF ~ids.some THEN <<>>
    ELSE LET ty == FieldType(FieldType("Invoice", kind.header).n, kind.entry)
         IN  << [f \in {kind.entry} |->
                    [i \in 1..Len(ids.val) |->
                        [Zero(TStruct(ty.n)) EXCEPT !.ID = ids.val[i]]]] >>

\* the reference of a line to a kind of header
LineRef(kind, token) ==
    IF ~token.some THEN <<>>
    ELSE << [Zero(TStruct(FieldType("InvoiceLine", kind.line).n)) EXCEPT !.Ref = token.val] >>

\* a document whose headers of kinds a and b declare ha and hb, and whose
\* line k carries the tokens toks[k] for the two kinds
RefDoc(a, b, ha, hb, toks) ==
    [ZeroInvoice EXCEPT
        !.Version = <<"6", ".", "0", ".", "2">>,
        ![RefKinds[a].header] = Header(RefKinds[a], ha),
        ![RefKinds[b].header] = Header(RefKinds[b], hb),
        !.InvoiceLines.InvoiceLine =
            [k \in 1..Len(toks) |->
                [ZeroLine EXCEPT
                    !.ID = NatText(k),
                    ![RefKinds[a].line] = LineRef(RefKinds[a], toks[k][1]),
                    ![RefKinds[b].line] = LineRef(RefKinds[b], toks[k][2])]]]

\* the tokens of the lines: the first line refers to both kinds, every
\* later line to the first kind alone
LineTokens ==
    {<<>>} \cup
    UNION { {<<first>> \o [k \in 1..n |-> <<rest[k], Absent>>] :
                first \in Tokens \X Tokens, rest \in [1..n -> FewTokens]} :
            n \in 0..(MaxLines - 1) }

RefDocs ==
    { RefDoc(p[1], p[2], ha, hb, toks) :
        p \in {<<1, 2>>, <<4, 3>>}, ha \in HeaderChoices, hb \in FewHeaderChoices,
        toks \in LineTokens }

\* the sample with a quantity that is no decimal number
BadQuantity ==
    [Sample(1) EXCEPT
        !.InvoiceLines.InvoiceLine[1].InvoicedQuantity.Value = <<"1", "2", ",", "3", "4">>]

InitDecode ==
    /\ ordering = DeclaredTable
    /\ \/ given \in [doc : RefDocs, damage : {"none"}]
       \/ given \in [doc : {Sample(1)}, damage : Damages]
       \/ given \in [doc : {BadQuantity}, damage : {"none"}]
    /\ \E file \in {File(given.doc)} : data = Damage(file, given.damage)
    /\ Idle

NextDecode == Decode

SpecDecode == InitDecode /\ [][NextDecode]_vars
-----------------------------------------------------------------------------
(* Properties of decoding *)

\* every leaf of a value meets the contract of its scalar type
RECURSIVE LeavesValid(_, _)
LeavesValid(v, ty) ==
    CASE ty = TDecimal   -> v = <<>> \/ MatchDecimal(v)
      [] ty = TUUID      -> v = <<>> \/ MatchUUID(v)
      [] ty.k = "Ptr"    -> v = <<>> \/ LeavesValid(v[1], TStruct(ty.n))
      [] ty.k = "Slice"  -> \A i \in 1..Len(v) : LeavesValid(v[i], TStruct(ty.n))
      [] IsComposite(ty) /\ ty.k = "Struct" ->
            \A i \in 1..Len(Fields(ty.n)) :
                LeavesValid(v[Fields(ty.n)[i].go], Fields(ty.n)[i].ty)
      [] OTHER           -> TRUE

\* the input is well-formed serialized input: a whole file, nothing after
\* its root element, every leaf within its scalar contract
WellFormedInput ==
    /\ given.damage = "none"
    /\ LeavesValid(given.doc, TStruct("Invoice"))

\* the reference diagnostics returned with the document
Diagnostics == IF decErr.type = "DecodeErrors" THEN decErr.list ELSE <<>>

\* C2: decoding has two kinds of outcome: for input that is not well-formed
\* (malformed, empty, a leaf outside its scalar contract) one fatal error
\* and no document; otherwise a document with no error or with reference
\* diagnostics only.
DecodeOutcomes ==
    pc \in {"decoded", "failed"} =>
        IF WellFormedInput
        THEN /\ invoice # <<>>
             /\ decErr.type \in {"nil", "DecodeErrors"}
             /\ decErr.type = "DecodeErrors" => decErr.list # <<>>
        ELSE /\ invoice = <<>>
             /\ decErr.type = "*DecodeError"

\* the identifiers the header collection of a kind declares in the input
Declared(kind) ==
    LET h == given.doc[kind.header]
    IN  IF h = <<>> THEN {}
        ELSE {h[1][kind.entry][i].ID : i \in 1..Len(h[1][kind.entry])} \ {<<>>}

\* the entries of a header collection that repeat an identifier an earlier
\* entry of the same collection declares
Repeats(kind) ==
    LET h == given.doc[kind.header]
    IN  IF h = <<>> THEN {}
        ELSE {i \in 1..Len(h[1][kind.entry]) :
                 /\ h[1][kind.entry][i].ID # <<>>
                 /\ \E j \in 1..(i - 1) : h[1][kind.entry][j].ID = h[1][kind.entry][i].ID}

\* the token line i of the input carries for a kind, <<>> if it carries none
Token(i, kind) ==
    LET p == given.doc.InvoiceLines.InvoiceLine[i][kind.line]
    IN  IF p = <<>> THEN <<>> ELSE p[1].Ref

\* the lines and kinds of the input whose token resolves to nothing
Unresolved ==
    {ik \in (1..Len(given.doc.InvoiceLines.InvoiceLine)) \X (1..4) :
        /\ Token(ik[1], RefKinds[ik[2]]) # <<>>
        /\ Token(ik[1], RefKinds[ik[2]]) \notin Declared(RefKinds[ik[2]])}

\* the document decoded is the document the file was written from
FullyPopulated ==
    /\ invoice # <<>>
    /\ [invoice[1] EXCEPT !.XMLName = ZeroInvoice.XMLName] = given.doc

\* C3: the reference pass never aborts decoding and does not stop at the
\* first problem: the fully populated document is returned with one
\* diagnostic for every duplicate identifier and every unresolved line
\* reference of the whole tree.
AllReferenceProblemsReported ==
    (pc = "decoded" /\ WellFormedInput) =>
        /\ FullyPopulated
        /\ Len(Diagnostics) =
              Cardinality(Unresolved)
                + Cardinality(UNION {{<<k, i>> : i \in Repeats(RefKinds[k])} : k \in 1..4})
        /\ \A j \in 1..Len(Diagnostics) : Diagnostics[j].type = "*DecodeError"

\* problems in both collections and in two lines were reported together,
\* with the document
AllReferenceProblemsReportedWitness ==
    /\ pc = "decoded" /\ invoice # <<>>
    /\ Len(Diagnostics) >= 4
    /\ \E k \in 1..4 : Repeats(RefKinds[k]) # {}
    /\ Cardinality({ik[1] : ik \in Unresolved}) = MaxLines
    /\ Cardinality({ik[2] : ik \in Unresolved}) > 1

\* the diagnostics at the path of the reference of line i to a kind
LineDiagnostics(i, kind) ==
    {j \in 1..Len(Diagnostics) :
        Diagnostics[j].Path = Path("Invoice.InvoiceLines.InvoiceLine", i - 1, "." \o kind.line)}

\* C4: a line whose token for a kind equals no identifier declared in the
\* header collection of that kind yields exactly one unresolved-reference
\* diagnostic at the path of that line and reference; a token that equals a
\* declared identifier of that kind yields none; identifiers of other kinds
\* do not resolve it.
UnresolvedReferenceDiagnostics ==
    (pc = "decoded" /\ WellFormedInput) =>
        \A i \in 1..Len(given.doc.InvoiceLines.InvoiceLine) : \A k \in 1..4 :
            LET kind == RefKinds[k]
                ds   == LineDiagnostics(i, kind)
            IN  IF <<i, k>> \in Unresolved
                THEN /\ Cardinality(ds) = 1
                     /\ \A j \in ds :
                           Diagnostics[j].Err =
                              Errorf("ref %q not found in header " \o kind.header, Token(i, kind))
                ELSE ds = {}

\* a line carries a token that only a collection of another kind declares,
\* and a second token that its own kind declares
UnresolvedReferenceDiagnosticsWitness ==
    /\ pc = "decoded" /\ invoice # <<>>
    /\ \E i \in 1..Len(given.doc.InvoiceLines.InvoiceLine) : \E k, m, r \in 1..4 :
          /\ <<i, k>> \in Unresolved
          /\ m # k /\ Token(i, RefKinds[k]) \in Declared(RefKinds[m])
          /\ Cardinality(LineDiagnostics(i, RefKinds[k])) = 1
          /\ Token(i, RefKinds[r]) \in Declared(RefKinds[r])

\* the diagnostics at the entries of the header collection of a kind
HeaderDiagnostics(kind) ==
    {j \in 1..Len(Diagnostics) :
        Diagnostics[j].Path.head = "Invoice." \o kind.header \o "." \o kind.entry}

\* C5: two entries of one header collection that declare the same
\* identifier yield exactly one duplicate-identifier diagnostic; entries of
\* different collections that share an identifier yield none.
DuplicateIdentifierDiagnostics ==
    (pc = "decoded" /\ WellFormedInput) =>
        \A k \in 1..4 :
            LET kind == RefKinds[k]
                ds   == HeaderDiagnostics(kind)
            IN  /\ Cardinality(ds) = Cardinality(Repeats(kind))
                /\ \A i \in Repeats(kind) :
                      \E j \in ds :
                          /\ Diagnostics[j].Path.index = i - 1
                          /\ Diagnostics[j].Err =
                                Errorf("duplicate id %q",
                                       given.doc[kind.header][1][kind.entry][i].ID)

\* one collection declares an identifier twice and another collection
\* declares the same identifier: one diagnostic, at the second entry
DuplicateIdentifierDiagnosticsWitness ==
    /\ pc = "decoded" /\ invoice # <<>>
    /\ \E k, m \in 1..4 :
          /\ k # m
          /\ Repeats(RefKinds[k]) = {2}
          /\ Len(given.doc[RefKinds[k].header][1][RefKinds[k].entry]) = 2
          /\ Repeats(RefKinds[m]) = {}
          /\ Declared(RefKinds[k]) = Declared(RefKinds[m])
          /\ Cardinality(HeaderDiagnostics(RefKinds[k])) = 1
          /\ HeaderDiagnostics(RefKinds[m]) = {}
-----------------------------------------------------------------------------
(* The caller of the validator: a document is built in memory and checked   *)
(* with the options chosen.                                                 *)

\* the ways in which a document built for validation departs from the sample
Defects ==
    {"no id", "no city", "type 2", "foreign", "curr", "rate", "no vat", "tertiary", "batch"}

\* the sample with one more departure
Defect(doc, how) ==
    LET lined == doc.InvoiceLines.InvoiceLine # <<>>
    IN  CASE how = "no id"   -> [doc EXCEPT !.ID = <<>>]
          [] how = "no city" ->
                [doc EXCEPT !.AccountingSupplierParty.Party.PostalAddress.CityName = <<>>]
          [] how = "type 2"  -> [doc EXCEPT !.DocumentType = 2]
          [] how = "foreign" -> [doc EXCEPT !.ForeignCurrencyCode = <<"E", "U", "R">>]
          [] how = "curr"    -> [doc EXCEPT !.TaxTotal.TaxAmountCurr = <<"4">>]
          [] how = "rate"    -> [doc EXCEPT !.RefCurrRate = <<"1", ".", "5">>]
          [] how = "no vat"  -> [doc EXCEPT !.VATApplicable = FALSE]
          [] how = "tertiary" /\ lined ->
                [doc EXCEPT !.InvoiceLines.InvoiceLine[1].Item.TertiarySellersItemIdentification =
                                << [ID |-> <<"t", "1">>] >>]
          [] how = "batch" /\ lined /\ doc.InvoiceLines.InvoiceLine[1].Item.StoreBatches # <<>> ->
                [doc EXCEPT !.InvoiceLines.InvoiceLine[1].Item.StoreBatches[1].StoreBatch[2].Quantity =
                                [Value |-> <<"4", ".", "5">>, UnitCode |-> <<"K", "G", "M">>]]
          [] how = "no uuid" -> [doc EXCEPT !.UUID = <<>>]
          [] how = "no date" -> [doc EXCEPT !.IssueDate = ZeroInvoice.IssueDate]
          [] how = "no currency" -> [doc EXCEPT !.LocalCurrencyCode = <<>>]
          [] how = "no subtotal" -> [doc EXCEPT !.TaxTotal.TaxSubTotal = <<>>]
          [] how = "no party id" ->
                [doc EXCEPT !.AccountingSupplierParty.Party.PartyIdentification.ID = <<>>]
          [] how = "no party name" ->
                [doc EXCEPT !.AccountingSupplierParty.Party.PartyName.Name = <<>>]
          [] how = "no country" ->
                [doc EXCEPT !.AccountingSupplierParty.Party.PostalAddress.Country.IdentificationCode = <<>>]
          [] how = "no customer id" /\ doc.AccountingCustomerParty # <<>> ->
                [doc EXCEPT !.AccountingCustomerParty[1].Party.PartyIdentification.ID = <<>>]
          [] how = "no customer" -> [doc EXCEPT !.AccountingCustomerParty = <<>>]
          [] how = "anonymous" ->
                [doc EXCEPT !.AnonymousCustomerParty =
                                << [ID |-> <<"A", "-", "1">>, IDScheme |-> <<>>] >>]
          [] how = "type 7"  -> [doc EXCEPT !.DocumentType = 7]
          [] how = "type 3"  -> [doc EXCEPT !.DocumentType = 3]
          [] how = "type 6"  -> [doc EXCEPT !.DocumentType = 6]
          [] how = "type 4"  -> [doc EXCEPT !.DocumentType = 4]
          [] how = "reference" ->
                [doc EXCEPT !.OriginalDocumentReferences =
                    << [OriginalDocumentReference |->
                          << [ID |-> <<"d", "1">>, OriginalDocumentID |-> <<"F", "V", "-", "0">>] >>] >>]
          [] how = "empty references" ->
                [doc EXCEPT !.OriginalDocumentReferences = << [OriginalDocumentReference |-> <<>>] >>]
          [] how = "paired" ->
                [doc EXCEPT
                    !.LegalMonetaryTotal.TaxExclusiveAmountCurr = <<"4">>,
                    !.LegalMonetaryTotal.TaxInclusiveAmountCurr = <<"5">>,
                    !.LegalMonetaryTotal.PayableAmountCurr = <<"5">>,
                    !.TaxTotal.TaxAmountCurr = <<"1">>,
                    !.TaxTotal.TaxSubTotal =
                        [k \in 1..Len(@) |->
                            [@[k] EXCEPT !.TaxableAmountCurr = <<"4">>, !.TaxAmountCurr = <<"1">>,
                                         !.TaxInclusiveAmountCurr = <<"5">>]],
                    !.InvoiceLines.InvoiceLine =
                        [k \in 1..Len(@) |->
                            [@[k] EXCEPT !.LineExtensionAmountCurr = <<"4">>,
                                         !.LineExtensionAmountTaxInclusiveCurr = <<"5">>]]]
          [] how = "deposits" ->
                [doc EXCEPT
                    !.NonTaxedDeposits =
                        << [NonTaxedDeposit |->
                              << [Zero(TStruct("NonTaxedDeposit")) EXCEPT
                                     !.ID = <<"n", "1">>, !.DepositAmount = <<"1", "0">>] >>] >>,
                    !.TaxedDeposits =
                        << [TaxedDeposit |->
                              << [Zero(TStruct("TaxedDeposit")) EXCEPT
                                     !.ID = <<"t", "1">>, !.TaxableDepositAmount = <<"1", "0">>,
                                     !.TaxInclusiveDepositAmountCurr = <<"1">>] >>] >>]
          [] how = "line curr" /\ lined ->
                [doc EXCEPT !.InvoiceLines.InvoiceLine[Len(doc.InvoiceLines.InvoiceLine)]
                                .LineExtensionAmountCurr = <<"4">>]
          [] how = "rate 1.0" -> [doc EXCEPT !.CurrRate = <<"1", ".", "0">>]
          [] how = "rate 1.00" -> [doc EXCEPT !.RefCurrRate = <<"1", ".", "0", "0">>]
          [] how = "rate near" -> [doc EXCEPT !.CurrRate = <<"1", ".">> \o Repeat("0", 16) \o <<"1">>]
          [] how = "line exempt" /\ lined ->
                [doc EXCEPT !.InvoiceLines.InvoiceLine[1].ClassifiedTaxCategory.VATApplicable = FALSE]
          [] how = "secondary" /\ lined ->
                [doc EXCEPT !.InvoiceLines.InvoiceLine[1].Item.SecondarySellersItemIdentification =
                                << [ID |-> <<"s", "2">>] >>]
          [] how = "no primary" ->
                [doc EXCEPT !.InvoiceLines.InvoiceLine =
                    [k \in 1..Len(@) |-> [@[k] EXCEPT !.Item.SellersItemIdentification = <<>>]]]
          [] how = "batch near" /\ lined /\ doc.InvoiceLines.InvoiceLine[1].Item.StoreBatches # <<>> ->
                [doc EXCEPT !.InvoiceLines.InvoiceLine[1].Item.StoreBatches[1].StoreBatch[2].Quantity.Value =
                                <<"4", ".", "9", "9", "5">>]
          [] how = "no batches" /\ lined ->
                [doc EXCEPT !.InvoiceLines.InvoiceLine[1].Item.StoreBatches = <<>>]
          [] how = "batch code" /\ lined /\ doc.InvoiceLines.InvoiceLine[1].Item.StoreBatches # <<>> ->
                [doc EXCEPT !.InvoiceLines.InvoiceLine[1].Item.StoreBatches[1].StoreBatch[2].Quantity.UnitCode =
                                <<"K", "G", "M">>]
          [] how = "batch unit" /\ lined /\ doc.InvoiceLines.InvoiceLine[1].Item.StoreBatches # <<>> ->
                [doc EXCEPT !.InvoiceLines.InvoiceLine[1].Item.StoreBatches[1].StoreBatch[2].Quantity.UnitCode =
                                <<"C", "6", "2">>]
          [] how = "line no unit" /\ lined ->
                [doc EXCEPT !.InvoiceLines.InvoiceLine[1].InvoicedQuantity.UnitCode = <<>>]
          [] OTHER -> doc

RECURSIVE Defective(_, _)
Defective(doc, hows) ==
    IF hows = {} THEN doc
    ELSE LET how == CHOOSE h \in hows : TRUE
         IN  Defect(Defective(doc, hows \ {how}), how)

\* the options a caller passes
ValidateOptions ==
    [Strict : BOOLEAN, AllowRoundingTolerance : {TRUE},
     Tolerance : {<<"0", ".", "0", "1">>, <<"1">>}]

\* the departures of the documents on which the single rules are examined
Departures ==
    Defects \cup
    {"no uuid", "no date", "no currency", "no subtotal", "no party id", "no party name",
     "no country", "no customer id", "type 3", "type 6", "type 4", "reference",
     "empty references", "paired", "deposits", "line curr", "rate 1.0", "rate 1.00",
     "rate near", "line exempt", "secondary", "no primary", "batch near", "no batches",
     "batch code", "batch unit", "line no unit", "no customer", "anonymous", "type 7"}

\* how many departures one of these documents has at most
MaxDepartures == 2

\* the sets of at most k departures
RECURSIVE DeparturesUpTo(_)
DeparturesUpTo(k) ==
    IF k = 0 THEN {{}}
    ELSE LET fewer == DeparturesUpTo(k - 1)
         IN  fewer \cup {hows \cup {how} : hows \in fewer, how \in Departures}

InitValidate ==
    /\ ordering = DeclaredTable
    /\ \E n \in 0..MaxLines, hows \in SUBSET Defects :
           given = [doc |-> Defective(Sample(n), hows), damage |-> "none", defects |-> hows]
    /\ data = <<>>
    /\ calls = <<>> /\ made = <<>>
    /\ invoice = <<>> /\ decErr = Nil
    /\ encoded = <<>> /\ encErr = Nil
    /\ invoice2 = <<>> /\ decErr2 = Nil
    /\ opts \in ValidateOptions /\ errs = <<>>
    /\ pc = "start"

\* a validation that fills in the currency code of a document without one
ValidateNormalising ==
    /\ pc = "built"
    /\ errs' = ValidateInvoiceWithOptions(invoice[1], opts)
    /\ invoice' = << [invoice[1] EXCEPT
                         !.LocalCurrencyCode = IF @ = <<>> THEN <<"C", "Z", "K">> ELSE @] >>
    /\ pc' = "validated"
    /\ UNCHANGED <<calls, made, ordering, given, data, decErr, encoded, encErr, invoice2, decErr2, opts>>

\* errs := isdoc.ValidateInvoiceWithOptions(invoice, opts)
Validate ==
    /\ pc \in {"built", "decoded"}
    /\ errs' = ValidateInvoiceWithOptions(invoice[1], opts)
    /\ pc' = IF pc = "built" THEN "validated" ELSE "decoded validated"
    /\ UNCHANGED <<calls, made, ordering, given, data, invoice, decErr, encoded, encErr, invoice2, decErr2,
                   opts>>

NextValidate == Build \/ Validate

SpecValidate == InitValidate /\ [][NextValidate]_vars

\* the same caller with a document that departs from the sample in at most
\* MaxDepartures ways
InitRules ==
    /\ ordering = DeclaredTable
    /\ \E n \in 0..MaxLines, hows \in DeparturesUpTo(MaxDepartures) :
           given = [doc |-> Defective(Sample(n), hows), damage |-> "none", defects |-> hows]
    /\ data = <<>>
    /\ calls = <<>> /\ made = <<>>
    /\ invoice = <<>> /\ decErr = Nil
    /\ encoded = <<>> /\ encErr = Nil
    /\ invoice2 = <<>> /\ decErr2 = Nil
    /\ opts \in ValidateOptions /\ errs = <<>>
    /\ pc = "start"

SpecRules == InitRules /\ [][NextValidate]_vars

\* a caller that holds a document, decoded from a file or built in memory,
\* and validates or encodes it
InitCalls ==
    /\ ordering = DeclaredTable
    /\ \E n \in 0..MaxLines, hows \in DeparturesUpTo(1) :
           given = [doc |-> Defective(Sample(n), hows), damage |-> "none", defects |-> hows]
    /\ \E file \in {File(given.doc)} : data = file
    /\ calls = <<>> /\ made = <<>>
    /\ invoice = <<>> /\ decErr = Nil
    /\ encoded = <<>> /\ encErr = Nil
    /\ invoice2 = <<>> /\ decErr2 = Nil
    /\ opts \in ValidateOptions /\ errs = <<>>
    /\ pc = "start"

NextCalls == Decode \/ Build \/ Validate \/ EncodeStep

SpecCalls == InitCalls /\ [][NextCalls]_vars
-----------------------------------------------------------------------------
(* Properties of validation *)

\* the diagnostic a departure from the sample must lead to, whatever else is
\* wrong with the document: its field path and code, or none where another
\* departure takes the rule's precondition away
Expected(how) ==
    LET hows == given.defects
        lined == given.doc.InvoiceLines.InvoiceLine # <<>>
        line1 == "Invoice.InvoiceLines.InvoiceLine[0]"
    IN  CASE how = "no id"   -> {<<"Invoice.ID", ErrCodeRequiredField>>}
          [] how = "no city" ->
                {<<"Invoice.AccountingSupplierParty.Party.PostalAddress.CityName",
                   ErrCodeRequiredField>>}
          [] how = "type 2"  -> {<<"Invoice.OriginalDocumentReferences", ErrCodeRequiredField>>}
          [] how = "foreign" ->
                {<<"Invoice.LegalMonetaryTotal.TaxExclusiveAmountCurr", ErrCodeRequiredField>>}
          [] how = "curr" /\ "foreign" \notin hows ->
                {<<"Invoice.TaxTotal.TaxAmountCurr", ErrCodeSchemaViolation>>}
          [] how = "rate" /\ "foreign" \notin hows ->
                {<<"Invoice.RefCurrRate", ErrCodeSchemaViolation>>}
          [] how = "no vat" /\ lined ->
                {<<line1 \o ".ClassifiedTaxCategory.VATApplicable", ErrCodeVATMismatch>>}
          [] how = "tertiary" /\ lined ->
                {<<line1 \o ".Item.TertiarySellersItemIdentification", ErrCodeSchemaViolation>>}
          [] how = "batch" /\ lined ->
                {<<line1 \o ".Item.StoreBatches.StoreBatch[1].Quantity", ErrCodeSchemaViolation>>,
                 <<line1 \o ".Item.StoreBatches", ErrCodeTotalMismatch>>}
          [] OTHER -> {}

\* C10: validation never short-circuits: the list returned is the structural
\* diagnostics followed by those of the original-document link, currency
\* consistency, VAT consistency, item identification and store batch rules,
\* each computed on the whole document; so every departure built into the
\* document is reported whatever the other passes and rules reported.
ValidationNeverShortCircuits ==
    pc = "validated" =>
        /\ errs = validateStructural(invoice[1], opts)
                    \o validateOriginalDocumentLink(invoice[1], opts)
                    \o validateCurrencyConsistency(invoice[1], opts)
                    \o validateVATConsistency(invoice[1], opts)
                    \o validateItemIdentificationHierarchy(invoice[1], opts)
                    \o validateStoreBatches(invoice[1], opts)
        /\ \A how \in given.defects : \A e \in Expected(how) :
               \E i \in 1..Len(errs) : errs[i].Field = e[1] /\ errs[i].Code = e[2]

\* a document with a missing identifier is validated, and the result carries
\* Error diagnostics of the structural pass and diagnostics of all five rules
ValidationNeverShortCircuitsWitness ==
    /\ pc = "validated"
    /\ invoice[1].ID = <<>>
    /\ HasErrors(validateStructural(invoice[1], opts))
    /\ validateOriginalDocumentLink(invoice[1], opts) # <<>>
    /\ validateCurrencyConsistency(invoice[1], opts) # <<>>
    /\ validateVATConsistency(invoice[1], opts) # <<>>
    /\ validateItemIdentificationHierarchy(invoice[1], opts) # <<>>
    /\ validateStoreBatches(invoice[1], opts) # <<>>
    /\ Len(errs) >= 7
-----------------------------------------------------------------------------
(* Properties of the single rules *)

\* the diagnostics of the last call with the given field path and code
Reported(field, code) == {i \in 1..Len(errs) : errs[i].Field = field /\ errs[i].Code = code}

\* the parties of a document that validation looks into, with their paths
Parties(inv) ==
    {<<"Invoice.AccountingSupplierParty.Party", inv.AccountingSupplierParty.Party>>}
    \cup (IF inv.AccountingCustomerParty = <<>> THEN {}
          ELSE {<<"Invoice.AccountingCustomerParty.Party", inv.AccountingCustomerParty[1].Party>>})

\* the paths of the hard-required fields a document lacks
MissingHardRequired(inv) ==
    (IF inv.ID = <<>> THEN {"Invoice.ID"} ELSE {})
    \cup (IF inv.UUID = <<>> THEN {"Invoice.UUID"} ELSE {})
    \cup (IF DateIsZero(inv.IssueDate) THEN {"Invoice.IssueDate"} ELSE {})
    \cup (IF inv.LocalCurrencyCode = <<>> THEN {"Invoice.LocalCurrencyCode"} ELSE {})
    \cup (IF inv.InvoiceLines.InvoiceLine = <<>> THEN {"Invoice.InvoiceLines"} ELSE {})
    \cup (IF inv.TaxTotal.TaxSubTotal = <<>> THEN {"Invoice.TaxTotal.TaxSubTotal"} ELSE {})
    \cup {p[1] \o ".PartyIdentification.ID" : p \in {q \in Parties(inv) : q[2].PartyIdentification.ID = <<>>}}
    \cup {p[1] \o ".PartyName.Name" : p \in {q \in Parties(inv) : q[2].PartyName.Name = <<>>}}

\* the paths of the city and country a party of the document lacks
MissingSoftRequired(inv) ==
    {p[1] \o ".PostalAddress.CityName" : p \in {q \in Parties(inv) : q[2].PostalAddress.CityName = <<>>}}
    \cup {p[1] \o ".PostalAddress.Country.IdentificationCode" :
             p \in {q \in Parties(inv) : q[2].PostalAddress.Country.IdentificationCode = <<>>}}

\* C11: a missing identifier, UUID, issue date, currency code, a document
\* without lines or without tax sub-totals, and a party without
\* identification code or name are reported as RequiredField with severity
\* Error whether strict mode is on or off; a party without city or country is
\* reported as RequiredField with severity Warning when strict mode is off
\* and Error when it is on.
HardRequiredAlwaysError ==
    pc = "validated" =>
        /\ \A field \in MissingHardRequired(invoice[1]) :
               /\ Reported(field, ErrCodeRequiredField) # {}
               /\ \A i \in Reported(field, ErrCodeRequiredField) :
                      errs[i].Severity = SeverityError
        /\ \A field \in MissingSoftRequired(invoice[1]) :
               /\ Reported(field, ErrCodeRequiredField) # {}
               /\ \A i \in Reported(field, ErrCodeRequiredField) :
                      errs[i].Severity = IF opts.Strict THEN SeverityError ELSE SeverityWarning

\* the diagnostics of the validated document with strict mode on or off, the
\* other options as passed
Validated(strict) == ValidateInvoiceWithOptions(invoice[1], [opts EXCEPT !.Strict = strict])

\* C12: strict mode only escalates severities: validating a document with
\* strict mode on and with strict mode off gives the same sequence of field
\* paths, codes and messages; the strict result has no Warning, and what is
\* Error without strict mode is Error with it.
StrictOnlyEscalates ==
    pc = "validated" =>
        LET strict == Validated(TRUE)
            lax    == Validated(FALSE)
        IN  /\ errs = IF opts.Strict THEN strict ELSE lax
            /\ Len(strict) = Len(lax)
            /\ \A i \in 1..Len(strict) :
                   /\ strict[i].Field = lax[i].Field
                   /\ strict[i].Code = lax[i].Code
                   /\ strict[i].Msg = lax[i].Msg
                   /\ strict[i].Severity # SeverityWarning
                   /\ lax[i].Severity = SeverityError => strict[i].Severity = SeverityError

\* a document validated in strict mode whose diagnostics without strict mode
\* are an Error and a Warning
StrictOnlyEscalatesWitness ==
    /\ pc = "validated"
    /\ opts.Strict
    /\ LET lax == Validated(FALSE)
       IN  \E i, j \in 1..Len(errs) :
               /\ lax[i].Severity = SeverityError
               /\ lax[j].Severity = SeverityWarning
               /\ errs[j].Severity = SeverityError

\* the original-document references a document carries
OriginalReferences(inv) ==
    IF inv.OriginalDocumentReferences = <<>> THEN <<>>
    ELSE inv.OriginalDocumentReferences[1].OriginalDocumentReference

\* the diagnostics of the last call about the original-document link
LinkReported == {i \in 1..Len(errs) : errs[i].Field = "Invoice.OriginalDocumentReferences"}

\* C13: a document of type 2, 3 or 6 without an original-document reference
\* gets exactly one diagnostic at Invoice.OriginalDocumentReferences, of
\* severity Error whether strict mode is on or off; a document of another
\* type, and a document of type 2, 3 or 6 with a reference, gets none.
OriginalDocumentLinkRequired ==
    pc = "validated" =>
        IF invoice[1].DocumentType \in {2, 3, 6} /\ OriginalReferences(invoice[1]) = <<>>
        THEN /\ Cardinality(LinkReported) = 1
             /\ \A i \in LinkReported :
                    errs[i].Severity = SeverityError /\ errs[i].Code = ErrCodeRequiredField
        ELSE LinkReported = {}

\* a debit note or a credit of an advance, without any reference, validated
\* without strict mode and reported as an Error
OriginalDocumentLinkRequiredWitness ==
    /\ pc = "validated"
    /\ ~opts.Strict
    /\ invoice[1].DocumentType \in {3, 6}
    /\ OriginalReferences(invoice[1]) = <<>>
    /\ \E i \in LinkReported : errs[i].Severity = SeverityError

\* the amounts of a schema type that have a foreign-currency counterpart: the
\* fields beside which the type declares a field of the same name with Curr
AmountsWithCurr(n) == {a \in GoNames(n) : (a \o "Curr") \in GoNames(n)}

\* the values of a slice as entities of type n at the indexed paths
EntitiesOf(path, n, list) ==
    [k \in 1..Len(list) |-> [path |-> Indexed(path, k), n |-> n, val |-> list[k]]]

\* the amount-bearing entities of a document
AmountEntities(inv) ==
    << [path |-> "Invoice.LegalMonetaryTotal", n |-> "LegalMonetaryTotal",
        val |-> inv.LegalMonetaryTotal],
       [path |-> "Invoice.TaxTotal", n |-> "TaxTotal", val |-> inv.TaxTotal] >>
    \o EntitiesOf("Invoice.TaxTotal.TaxSubTotal", "TaxSubTotal", inv.TaxTotal.TaxSubTotal)
    \o EntitiesOf("Invoice.InvoiceLines.InvoiceLine", "InvoiceLine", inv.InvoiceLines.InvoiceLine)
    \o (IF inv.NonTaxedDeposits = <<>> THEN <<>>
        ELSE EntitiesOf("Invoice.NonTaxedDeposits.NonTaxedDeposit", "NonTaxedDeposit",
                        inv.NonTaxedDeposits[1].NonTaxedDeposit))
    \o (IF inv.TaxedDeposits = <<>> THEN <<>>
        ELSE EntitiesOf("Invoice.TaxedDeposits.TaxedDeposit", "TaxedDeposit",
                        inv.TaxedDeposits[1].TaxedDeposit))

\* the diagnostics of the last call at a field path
ReportedAt(field) == {i \in 1..Len(errs) : errs[i].Field = field}

\* C14: currency pairing on every amount-bearing entity (legal monetary
\* total, tax total, each tax sub-total, each line, each deposit) and every
\* amount the schema pairs with a ...Curr field: with a foreign currency
\* declared, a populated amount whose counterpart is empty gets one
\* RequiredField diagnostic at the counterpart; with none declared, a
\* populated counterpart gets one diagnostic; its severity is Warning by
\* default and Error in strict mode; a pair that satisfies the rule gets none.
CurrencyPairingEnforced ==
    pc = "validated" =>
        LET inv  == invoice[1]
            ents == AmountEntities(inv)
        IN  \A k \in 1..Len(ents) : \A a \in AmountsWithCurr(ents[k].n) :
                LET at == ReportedAt(ents[k].path \o "." \o a \o "Curr")
                    owed == IF inv.ForeignCurrencyCode # <<>>
                            THEN ents[k].val[a] # <<>> /\ ents[k].val[a \o "Curr"] = <<>>
                            ELSE ents[k].val[a \o "Curr"] # <<>>
                IN  IF owed
                    THEN /\ Cardinality(at) = 1
                         /\ \A i \in at :
                                /\ errs[i].Severity =
                                       IF opts.Strict THEN SeverityError ELSE SeverityWarning
                                /\ inv.ForeignCurrencyCode # <<>>
                                       => errs[i].Code = ErrCodeRequiredField
                    ELSE at = {}

\* a document in a foreign currency with a deposit whose taxable amount has
\* no counterpart and a line whose amounts have none, validated by default:
\* both are reported as Warning, and the deposit's paired amount is not
CurrencyPairingEnforcedWitness ==
    /\ pc = "validated"
    /\ ~opts.Strict
    /\ invoice[1].ForeignCurrencyCode # <<>>
    /\ \E i, j \in 1..Len(errs) :
           /\ errs[i].Field = "Invoice.TaxedDeposits.TaxedDeposit[0].TaxableDepositAmountCurr"
           /\ errs[i].Severity = SeverityWarning
           /\ errs[j].Field = "Invoice.InvoiceLines.InvoiceLine[1].LineExtensionAmountCurr"
           /\ errs[j].Severity = SeverityWarning
    /\ ReportedAt("Invoice.TaxedDeposits.TaxedDeposit[0].TaxInclusiveDepositAmountCurr") = {}

\* a decimal text whose value is exactly 1: an optional sign, zeros and a
\* closing 1 before the point, nothing but zeros after it
IsOne(text) ==
    LET body  == IF text # <<>> /\ Head(text) = "+" THEN Tail(text) ELSE text
        dot   == Position(body, ".")
        whole == IF dot = 0 THEN body ELSE SubSeq(body, 1, dot - 1)
        frac  == IF dot = 0 THEN <<>> ELSE SubSeq(body, dot + 1, Len(body))
    IN  /\ MatchDecimal(body)
        /\ whole # <<>> /\ whole[Len(whole)] = "1"
        /\ \A i \in 1..(Len(whole) - 1) : whole[i] = "0"
        /\ \A i \in 1..Len(frac) : frac[i] = "0"

\* the two currency rates of a document
RateFields == {"CurrRate", "RefCurrRate"}

\* C15: without a foreign currency each of the two rates must equal 1 by
\* its numeric value: a rate written 1, 1.0 or 1.00 gets no diagnostic of the
\* rule, and a rate that is a decimal of another value gets one at the
\* rate's field.
RatesEqualOne ==
    pc = "validated" /\ invoice[1].ForeignCurrencyCode = <<>> =>
        \A f \in RateFields :
            LET text == invoice[1][f]
            IN  MatchDecimal(text) =>
                    (Reported("Invoice." \o f, ErrCodeSchemaViolation) = {} <=> IsOne(text))

\* the diagnostics of the last call with the given code
ReportedAs(code) == {i \in 1..Len(errs) : errs[i].Code = code}

\* the path of the line at place k of a document
LinePath(k) == Indexed("Invoice.InvoiceLines.InvoiceLine", k)

\* C16: VAT applicability propagates from the document to its lines: in a
\* VAT-inapplicable document every VAT-applicable line gets exactly one
\* VATMismatch diagnostic, at that line's path, and no other line gets one;
\* in a VAT-applicable document, and in one without a VAT-applicable line,
\* there is no VATMismatch diagnostic.
VATApplicabilityPropagates ==
    pc = "validated" =>
        LET lines == invoice[1].InvoiceLines.InvoiceLine
            taxed == {k \in 1..Len(lines) : lines[k].ClassifiedTaxCategory.VATApplicable}
        IN  IF invoice[1].VATApplicable
            THEN ReportedAs(ErrCodeVATMismatch) = {}
            ELSE /\ Cardinality(ReportedAs(ErrCodeVATMismatch)) = Cardinality(taxed)
                 /\ \A k \in taxed :
                        Cardinality(Reported(LinePath(k) \o ".ClassifiedTaxCategory.VATApplicable",
                                             ErrCodeVATMismatch)) = 1

\* a VAT-inapplicable document whose first line is not VAT-applicable and
\* whose second line is: one diagnostic, at the second line
VATApplicabilityPropagatesWitness ==
    /\ pc = "validated"
    /\ ~invoice[1].VATApplicable
    /\ Len(invoice[1].InvoiceLines.InvoiceLine) = 2
    /\ ~invoice[1].InvoiceLines.InvoiceLine[1].ClassifiedTaxCategory.VATApplicable
    /\ Cardinality(ReportedAs(ErrCodeVATMismatch)) = 1
    /\ Reported(LinePath(2) \o ".ClassifiedTaxCategory.VATApplicable", ErrCodeVATMismatch) # {}

\* C17: item identification is hierarchical on every line: a secondary
\* identifier without a primary one gets one diagnostic at the secondary
\* identifier; a tertiary identifier without both a primary and a secondary
\* one gets one diagnostic at the tertiary identifier; identifiers that form
\* a prefix of (primary, secondary, tertiary) get none.
ItemIdentificationHierarchical ==
    pc = "validated" =>
        \A k \in 1..Len(invoice[1].InvoiceLines.InvoiceLine) :
            LET item == invoice[1].InvoiceLines.InvoiceLine[k].Item
                primary   == item.SellersItemIdentification # <<>>
                secondary == item.SecondarySellersItemIdentification # <<>>
                tertiary  == item.TertiarySellersItemIdentification # <<>>
                atSecondary ==
                    ReportedAt(LinePath(k) \o ".Item.SecondarySellersItemIdentification")
                atTertiary ==
                    ReportedAt(LinePath(k) \o ".Item.TertiarySellersItemIdentification")
            IN  /\ Cardinality(atSecondary) = IF secondary /\ ~primary THEN 1 ELSE 0
                /\ Cardinality(atTertiary) =
                       IF tertiary /\ ~(primary /\ secondary) THEN 1 ELSE 0
                /\ (secondary => primary) /\ (tertiary => secondary)
                       => atSecondary = {} /\ atTertiary = {}

\* a document of two lines without primary identifiers whose first line has
\* a secondary one: the first line is reported at the secondary identifier,
\* the second line, without identifiers, is not
ItemIdentificationHierarchicalWitness ==
    /\ pc = "validated"
    /\ Len(invoice[1].InvoiceLines.InvoiceLine) = 2
    /\ invoice[1].InvoiceLines.InvoiceLine[1].Item.SellersItemIdentification = <<>>
    /\ invoice[1].InvoiceLines.InvoiceLine[1].Item.SecondarySellersItemIdentification # <<>>
    /\ ReportedAt(LinePath(1) \o ".Item.SecondarySellersItemIdentification") # {}
    /\ ReportedAt(LinePath(2) \o ".Item.SecondarySellersItemIdentification") = {}

\* the batch entries of a line
BatchesOf(line) ==
    IF line.Item.StoreBatches = <<>> THEN <<>> ELSE line.Item.StoreBatches[1].StoreBatch

\* the distance, in ten-thousandths, between the sum of the batch quantities
\* of a line and its invoiced quantity
BatchDistance(line) ==
    LET diff == BatchQuantitySum(BatchesOf(line)) - Scaled(Float64(line.InvoicedQuantity.Value))
    IN  IF diff < 0 THEN 0 - diff ELSE diff

\* C18: for every line that has batch entries, a TotalMismatch diagnostic is
\* produced if and only if the sum of the batch quantities and the invoiced
\* quantity of the line differ by more than the tolerance of the options
\* passed to the call.
BatchSumWithinConfiguredTolerance ==
    pc = "validated" =>
        \A k \in 1..Len(invoice[1].InvoiceLines.InvoiceLine) :
            LET line == invoice[1].InvoiceLines.InvoiceLine[k]
            IN  BatchesOf(line) # <<>> =>
                    (Reported(LinePath(k) \o ".Item.StoreBatches", ErrCodeTotalMismatch) # {}
                        <=> BatchDistance(line) > Scaled(Float64(opts.Tolerance)))

\* the unit codes the batch entries of a line carry
BatchUnitCodes(line) ==
    {BatchesOf(line)[j].Quantity.UnitCode : j \in 1..Len(BatchesOf(line))} \ {<<>>}

\* C19: the batch entries of a line share one unit code, that of the line
\* when the line has one: a line whose batch entries carry two different
\* unit codes gets a SchemaViolation diagnostic at its batches, a batch
\* entry whose unit code differs from the non-empty unit code of the line
\* gets one at its quantity, and a line whose batch entries carry no unit
\* code but the line's gets neither.  A unit code is a code that is set.
BatchUnitCodesConsistent ==
    pc = "validated" =>
        \A k \in 1..Len(invoice[1].InvoiceLines.InvoiceLine) :
            LET line  == invoice[1].InvoiceLines.InvoiceLine[k]
                own   == line.InvoicedQuantity.UnitCode
                path  == LinePath(k) \o ".Item.StoreBatches"
                AtBatch(j) ==
                    Reported(Indexed(path \o ".StoreBatch", j) \o ".Quantity",
                             ErrCodeSchemaViolation)
            IN  /\ Cardinality(BatchUnitCodes(line)) > 1
                       <=> Reported(path, ErrCodeSchemaViolation) # {}
                /\ \A j \in 1..Len(BatchesOf(line)) :
                       (/\ own # <<>>
                        /\ BatchesOf(line)[j].Quantity.UnitCode \notin {<<>>, own})
                           <=> AtBatch(j) # {}
                /\ BatchUnitCodes(line) \subseteq {own}
                       => /\ Reported(path, ErrCodeSchemaViolation) = {}
                          /\ \A j \in 1..Len(BatchesOf(line)) : AtBatch(j) = {}

\* a line without unit code whose two batch entries carry different unit
\* codes is reported at its batches, not at either entry; the second line,
\* with the sample's batches, is not reported
BatchUnitCodesConsistentWitness ==
    /\ pc = "validated"
    /\ Len(invoice[1].InvoiceLines.InvoiceLine) = 2
    /\ invoice[1].InvoiceLines.InvoiceLine[1].InvoicedQuantity.UnitCode = <<>>
    /\ Cardinality(BatchUnitCodes(invoice[1].InvoiceLines.InvoiceLine[1])) = 2
    /\ Reported(LinePath(1) \o ".Item.StoreBatches", ErrCodeSchemaViolation) # {}
    /\ Cardinality(ReportedAs(ErrCodeSchemaViolation)) = 1

\* C20: neither validation nor encoding mutates the document it is given:
\* across every validate call, with strict mode on or off, and every encode
\* call, the document the caller holds keeps the value of every field at
\* every depth.
DocumentNeverMutated ==
    [][pc' \in {"validated", "decoded validated", "encoded", "built encoded"}
           => invoice' = invoice]_vars

\* a document with a departure has been validated in strict mode with
\* Error diagnostics and is still the document that was built
DocumentNeverMutatedWitness ==
    /\ pc = "validated"
    /\ opts.Strict
    /\ given.defects # {}
    /\ HasErrors(errs)
    /\ invoice = <<given.doc>>
-----------------------------------------------------------------------------
(* Concurrent callers.  Each goroutine makes one call on a document of its  *)
(* own; a call runs in the steps of its function body, and the steps of     *)
(* different calls interleave freely.  A call's locals (the decoded value,  *)
(* the diagnostics, the Encoder's buffer) live in its own entry of `calls`; *)
(* the one thing the calls share is the package variable ordering.Sequence.  *)

\* how many goroutines call at once
MaxCallers == 2

Callers == 1..MaxCallers

\* the documents the callers hold
CallerDocs == {Sample(1), Bare(1)}

\* a call before its first step
Job(op, doc) ==
    [op |-> op, doc |-> doc, data |-> IF op = "decode" THEN File(doc) ELSE <<>>,
     opts |-> DefaultValidateOptions, pc |-> "ready",
     invoice |-> <<>>, err |-> Nil, errs |-> <<>>, buf |-> <<>>]

Jobs == {Job(op, doc) : op \in {"decode", "validate", "encode"}, doc \in CallerDocs}

InitConcurrent ==
    /\ ordering \in Tables
    /\ given = [table |-> ordering]
    /\ calls \in [Callers -> Jobs] /\ made = <<>>
    /\ data = <<>>
    /\ invoice = <<>> /\ decErr = Nil
    /\ encoded = <<>> /\ encErr = Nil
    /\ invoice2 = <<>> /\ decErr2 = Nil
    /\ opts = DefaultValidateOptions /\ errs = <<>>
    /\ pc = "concurrent"

\* what no call writes: the package variable and the single caller's state
Private == <<made, given, data, invoice, decErr, encoded, encErr, invoice2, decErr2, opts, errs, pc>>

\* DecodeBytes, pass 1: xml.Unmarshal(data, &invoice) into the call's local
DecodeUnmarshal(c) ==
    /\ calls[c].op = "decode" /\ calls[c].pc = "ready"
    /\ \E u \in {XMLUnmarshal(calls[c].data)} :
           IF u.ok
           THEN calls' = [calls EXCEPT ![c].invoice = <<u.val>>, ![c].pc = "unmarshalled"]
           ELSE \E r \in {Resolved(u)} :
                    calls' = [calls EXCEPT ![c].invoice = r.invoice, ![c].err = r.err,
                                           ![c].pc = "done"]
    /\ UNCHANGED <<ordering, Private>>

\* DecodeBytes, pass 2: resolveReferences(&invoice) and the return
DecodeResolve(c) ==
    /\ calls[c].op = "decode" /\ calls[c].pc = "unmarshalled"
    /\ \E es \in {resolveReferences(calls[c].invoice[1])} :
           calls' = [calls EXCEPT
                        ![c].err = IF Len(es) > 0 THEN DecodeErrors(es) ELSE Nil,
                        ![c].pc = "done"]
    /\ UNCHANGED <<ordering, Private>>

\* ValidateInvoiceWithOptions, first half: the structural rules
ValidateStructural(c) ==
    /\ calls[c].op = "validate" /\ calls[c].pc = "ready"
    /\ calls' = [calls EXCEPT ![c].errs = validateStructural(calls[c].doc, calls[c].opts),
                              ![c].pc = "structural"]
    /\ UNCHANGED <<ordering, Private>>

\* ValidateInvoiceWithOptions, second half: the business rules, appended
ValidateSemantic(c) ==
    /\ calls[c].op = "validate" /\ calls[c].pc = "structural"
    /\ calls' = [calls EXCEPT ![c].errs = @ \o validateSemantic(calls[c].doc, calls[c].opts),
                              ![c].pc = "done"]
    /\ UNCHANGED <<ordering, Private>>

\* Encoder.Encode up to the root tag, written to the call's buffer
EncodeHeader(c) ==
    /\ calls[c].op = "encode" /\ calls[c].pc = "ready"
    /\ calls' = [calls EXCEPT
                    ![c].buf = <<XMLDecl, "\n">>
                        \o <<"<", "Invoice", " ", Namespace, " ", "version", "=", "\"">>
                        \o calls[c].doc.Version \o <<"\"", ">">> \o <<"\n">>,
                    ![c].pc = "header"]
    /\ UNCHANGED <<ordering, Private>>

\* an encoder that sorts the order it took from the table where it lies:
\* the slice read from ordering.Sequence shares the table's storage
EncodeContentInPlace(c) ==
    /\ calls[c].op = "encode" /\ calls[c].pc = "header"
    /\ ordering' = [ordering EXCEPT !["Invoice"] = Reverse(@)]
    /\ \E content \in {encodeInvoiceContent(ordering', calls[c].doc, 1)} :
           calls' = [calls EXCEPT ![c].buf = @ \o content, ![c].pc = "content"]
    /\ UNCHANGED Private

\* Encoder.encodeInvoiceContent: the orders are read from ordering.Sequence
\* as it is when the step runs
EncodeContent(c) ==
    /\ calls[c].op = "encode" /\ calls[c].pc = "header"
    /\ \E content \in {encodeInvoiceContent(ordering, calls[c].doc, 1)} :
           calls' = [calls EXCEPT ![c].buf = @ \o content, ![c].pc = "content"]
    /\ UNCHANGED <<ordering, Private>>

\* Encoder.Encode from the closing tag: the buffer goes to the writer
EncodeWrite(c) ==
    /\ calls[c].op = "encode" /\ calls[c].pc = "content"
    /\ calls' = [calls EXCEPT ![c].buf = @ \o <<"</", "Invoice", ">", "\n">>,
                              ![c].pc = "done"]
    /\ UNCHANGED <<ordering, Private>>

NextConcurrent ==
    \E c \in Callers :
        \/ DecodeUnmarshal(c)
        \/ DecodeResolve(c)
        \/ ValidateStructural(c)
        \/ ValidateSemantic(c)
        \/ EncodeHeader(c)
        \/ EncodeContent(c)
        \/ EncodeWrite(c)

SpecConcurrent == InitConcurrent /\ [][NextConcurrent]_vars

\* the result of a finished call is the result of the same call made alone,
\* with the table as it was initialized
SameAsAlone(call) ==
    CASE call.op = "decode" ->
            \E r \in {DecodeBytes(call.data)} :
                call.invoice = r.invoice /\ call.err = r.err
      [] call.op = "validate" ->
            call.errs = ValidateInvoiceWithOptions(call.doc, call.opts)
      [] call.op = "encode" ->
            \E r \in {EncodeBytes(given.table, call.doc)} :
                call.buf = r.data /\ call.err = r.err

\* C21: decode, validate and encode calls on independent documents touch no
\* shared mutable state: the Ordering Table stays as it was initialized, and
\* under every interleaving each finished call has the result it has when
\* it runs alone.
ConcurrentCallsIndependent ==
    /\ ordering = given.table
    /\ \A c \in Callers : calls[c].pc = "done" => SameAsAlone(calls[c])

\* two calls of different kinds on different documents have both finished,
\* one of them an encoding
ConcurrentCallsIndependentWitness ==
    /\ pc = "concurrent"
    /\ \E c, d \in Callers :
           /\ calls[c].op = "encode" /\ calls[d].op # "encode"
           /\ calls[c].doc # calls[d].doc
           /\ calls[c].pc = "done" /\ calls[d].pc = "done"
           /\ calls[c].buf # <<>>
-----------------------------------------------------------------------------
(* A caller of package types: one text, or two numbers, handed to a          *)
(* constructor or method of Decimal, UUID, Date or Bool.                     *)

\* the longest text handed to the Decimal constructor
MaxText == 3

\* the characters of those texts: sign, point, thousands separator, space,
\* digits
DecimalChars == {"-", ".", ",", " ", "0", "1"}

RECURSIVE TextsUpTo(_)
TextsUpTo(k) ==
    IF k = 0 THEN {<<>>}
    ELSE LET shorter == TextsUpTo(k - 1)
         IN  shorter \cup {Append(t, c) : t \in shorter, c \in DecimalChars}

DecimalTexts == TextsUpTo(MaxText)

\* a number next to 1: 1.00000000000000001
NearOne == <<"1", ".">> \o Repeat("0", 16) \o <<"1">>

\* the Decimals compared: MustDecimal of the texts it accepts, the zero
\* value of the type, and two longer ones
Numbers ==
    {t \in DecimalTexts : MatchDecimal(t)}
        \cup {<<>>, NearOne, <<"0", ".", "0", "0">>}

UpperCase(s) ==
    [i \in 1..Len(s) |->
        CASE s[i] = "a" -> "A" [] s[i] = "b" -> "B" [] s[i] = "c" -> "C"
          [] s[i] = "d" -> "D" [] s[i] = "e" -> "E" [] s[i] = "f" -> "F"
          [] OTHER -> s[i]]

\* 123e4567-e89b-12d3-a456-426614174000
TestUUID ==
    <<"1", "2", "3", "e", "4", "5", "6", "7", "-", "e", "8", "9", "b", "-">>
        \o <<"1", "2", "d", "3", "-", "a", "4", "5", "6", "-">>
        \o <<"4", "2", "6", "6", "1", "4", "1", "7", "4", "0", "0", "0">>

\* a text with one character replaced
With(s, i, c) == [s EXCEPT ![i] = c]

\* a text without its character at i
Without(s, i) == SubSeq(s, 1, i - 1) \o SubSeq(s, i + 1, Len(s))

UUIDTexts ==
    LET canonical == {TestUUID, UpperCase(TestUUID), With(TestUUID, 1, "F"), SampleUUID}
    IN  canonical
          \cup {<<>>, <<" ">>, <<"\n", "\t">>}
          \cup {<<" ">> \o u : u \in canonical} \cup {u \o <<"\n">> : u \in canonical}
          \cup {With(u, i, c) : u \in canonical, i \in {1, 9, 10, 36}, c \in {"g", "-", "0", " "}}
          \cup {Without(u, i) : u \in canonical, i \in {1, 9, 36}}
          \cup {u \o <<c>> : u \in canonical, c \in {"0", "-"}}
          \cup {<<"{">> \o u \o <<"}">> : u \in canonical}

Chars2(a, b) == <<a, b>>

DateTexts ==
    LET years  == {<<"2", "0", "2", "4">>, <<"2", "0", "2", "3">>, <<"1", "9", "0", "0">>,
                   <<"0", "0", "0", "1">>, <<"0", "0", "0", "0">>, <<"2", "4">>}
        months == {<<"0", "1">>, <<"0", "2">>, <<"0", "4">>, <<"1", "2">>, <<"1", "3">>,
                   <<"0", "0">>, <<"2">>}
        days   == {<<"0", "1">>, <<"2", "8">>, <<"2", "9">>, <<"3", "0">>, <<"3", "1">>,
                   <<"3", "2">>, <<"0", "0">>, <<"1">>}
        dashed == {y \o <<"-">> \o m \o <<"-">> \o d : y \in years, m \in months, d \in days}
        sound  == {<<"2", "0", "2", "4">> \o <<"-">> \o m \o <<"-">> \o d :
                      m \in {<<"0", "2">>, <<"1", "2">>}, d \in {<<"0", "1">>, <<"2", "9">>}}
    IN  dashed
          \cup {<<>>}
          \cup {[i \in 1..Len(t) |-> IF t[i] = "-" THEN "/" ELSE t[i]] : t \in sound}
          \cup {SubSeq(t, 9, 10) \o <<"-">> \o SubSeq(t, 6, 7) \o <<"-">> \o SubSeq(t, 1, 4) :
                   t \in sound}
          \cup {t \o <<"T", "0", "0", ":", "0", "0", ":", "0", "0", "Z">> : t \in sound}
          \cup {<<" ">> \o t : t \in sound} \cup {t \o <<" ">> : t \in sound}

BoolTexts ==
    LET literals == {<<"t", "r", "u", "e">>, <<"f", "a", "l", "s", "e">>}
    IN  literals
          \cup {<<>>, <<"1">>, <<"0">>, <<"T", "r", "u", "e">>, <<"F", "a", "l", "s", "e">>,
                <<"T", "R", "U", "E">>, <<"y", "e", "s">>, <<"n", "o">>, <<" ">>}
          \cup {<<c>> \o t : t \in literals, c \in {" ", "\n", "x"}}
          \cup {t \o <<c>> : t \in literals, c \in {" ", "\n", "e"}}
          \cup {<<" ">> \o t \o <<" ">> : t \in literals}

InitTypes ==
    /\ ordering = DeclaredTable
    /\ \/ given \in [kind : {"decimal"}, text : DecimalTexts, other : {<<>>}]
       \/ given \in [kind : {"numbers"}, text : Numbers, other : Numbers]
       \/ given \in [kind : {"uuid"}, text : UUIDTexts, other : {<<>>}]
       \/ given \in [kind : {"date"}, text : DateTexts, other : {<<>>}]
       \/ given \in [kind : {"bool"}, text : BoolTexts, other : {<<>>}]
    /\ data = <<>>
    /\ Idle

Called(what) ==
    /\ pc' = what
    /\ UNCHANGED <<calls, ordering, given, data, invoice, decErr, encoded, encErr,
                   invoice2, decErr2, opts, errs>>

\* d, err := types.NewDecimal(s)
CallNewDecimal ==
    /\ pc = "start" /\ given.kind = "decimal"
    /\ made' = NewDecimal(given.text)
    /\ Called("NewDecimal")

\* d.Equal(other)
CallEqual ==
    /\ pc = "start" /\ given.kind = "numbers"
    /\ made' = [ok |-> TRUE, val |-> Equal(given.text, given.other)]
    /\ Called("Equal")

\* d.IsZero()
CallIsZero ==
    /\ pc = "start" /\ given.kind = "numbers"
    /\ made' = [ok |-> TRUE, val |-> DecimalIsZero(given.text)]
    /\ Called("IsZero")

\* u, err := types.NewUUID(s)
CallNewUUID ==
    /\ pc = "start" /\ given.kind = "uuid"
    /\ made' = NewUUID(given.text)
    /\ Called("NewUUID")

\* d, err := types.ParseDate(s)
CallParseDate ==
    /\ pc = "start" /\ given.kind = "date"
    /\ made' = ParseDate(given.text)
    /\ Called("ParseDate")

\* b, err := types.ParseBool(s)
CallParseBool ==
    /\ pc = "start" /\ given.kind = "bool"
    /\ made' = ParseBool(given.text)
    /\ Called("ParseBool")

\* xml.Unmarshal of <v>s</v> into a types.Bool
CallBoolUnmarshalXML ==
    /\ pc = "start" /\ given.kind = "bool"
    /\ made' = BoolUnmarshalXML(given.text)
    /\ Called("Bool.UnmarshalXML")

NextTypes ==
    \/ CallNewDecimal
    \/ CallEqual
    \/ CallIsZero
    \/ CallNewUUID
    \/ CallParseDate
    \/ CallParseBool
    \/ CallBoolUnmarshalXML

SpecTypes == InitTypes /\ [][NextTypes]_vars

\* how often a character occurs in a text
RECURSIVE Count(_, _)
Count(s, c) ==
    IF s = <<>> THEN 0 ELSE (IF Head(s) = c THEN 1 ELSE 0) + Count(Tail(s), c)

\* an optional minus sign, then digits with at most one decimal point among
\* them and at least one digit
WellFormedDecimal(s) ==
    LET body == IF s # <<>> /\ Head(s) = "-" THEN Tail(s) ELSE s
    IN  /\ \A i \in 1..Len(body) : body[i] \in DigitSet \cup {"."}
        /\ Count(body, ".") <= 1
        /\ Len(body) - Count(body, ".") >= 1

\* C22: the Decimal constructor accepts exactly the texts made of an
\* optional minus sign and digits with at most one decimal point and at
\* least one digit; the empty text, a thousands separator, a second point,
\* a doubled sign and surrounding whitespace are rejected; the Decimal made
\* from an accepted text holds the text unchanged.
DecimalAcceptsExactlyWellFormed ==
    pc = "NewDecimal" =>
        /\ made.ok <=> WellFormedDecimal(given.text)
        /\ made.ok => made.val = given.text
        /\ \/ given.text = <<>>
           \/ \E i \in 1..Len(given.text) : given.text[i] \in {",", " "}
           \/ Count(given.text, ".") > 1
           \/ Count(given.text, "-") > 1
           => ~made.ok

\* a text that ends in its point, with a leading zero, has been accepted as
\* it is
DecimalAcceptsExactlyWellFormedWitness ==
    /\ pc = "NewDecimal"
    /\ given.text = <<"0", "1", ".">>
    /\ made.ok /\ made.val = <<"0", "1", ".">>

\* a text without its opening zeros
RECURSIVE DropLeadingZeros(_)
DropLeadingZeros(s) ==
    IF s # <<>> /\ Head(s) = "0" THEN DropLeadingZeros(Tail(s)) ELSE s

\* the number a Decimal's text denotes, exactly: its sign, the digits of its
\* whole part from the first that is not 0, the digits of its fraction up to
\* the last that is not 0; zero has no sign
Denoted(d) ==
    LET signed == d # <<>> /\ Head(d) = "-"
        body   == IF signed THEN Tail(d) ELSE d
        dots   == {i \in 1..Len(body) : body[i] = "."}
        dot    == IF dots = {} THEN Len(body) + 1 ELSE CHOOSE i \in dots : TRUE
        whole  == DropLeadingZeros(SubSeq(body, 1, dot - 1))
        frac   == DropZeros(SubSeq(body, dot + 1, Len(body)))
    IN  [neg |-> signed /\ whole \o frac # <<>>, whole |-> whole, frac |-> frac]

\* the Decimal is present: it is not the zero value of the type
Present(d) == d # <<>>

\* C23: two Decimals compare equal if and only if the numbers their texts
\* denote are equal, whatever the stored texts: "1.0" equals "1", and two
\* different numbers are not equal however close they are and however many
\* digits they have.
EqualByNumericValue ==
    pc = "Equal" /\ Present(given.text) /\ Present(given.other) =>
        (made.val <=> Denoted(given.text) = Denoted(given.other))

\* C24: the absent Decimal is distinct from a genuine zero: it does not
\* compare equal to a present Decimal that denotes zero, and the zero-check
\* answers for every present Decimal denoting zero as it does for "0" and
\* not as it does for the absent one.
AbsentDistinctFromZero ==
    /\ pc = "Equal" /\ Present(given.text) # Present(given.other)
          /\ Denoted(given.text) = Denoted(<<"0">>)
          /\ Denoted(given.other) = Denoted(<<"0">>)
          => ~made.val
    /\ pc = "IsZero" /\ Present(given.text) /\ Denoted(given.text) = Denoted(<<"0">>)
          => /\ made.val = DecimalIsZero(<<"0">>)
             /\ made.val # DecimalIsZero(<<>>)

\* the places of the hyphens in a text
Hyphens(s) == {i \in 1..Len(s) : s[i] = "-"}

\* 36 characters in the groups 8-4-4-4-12, each group of hexadecimal digits
\* in either letter case
CanonicalUUID(s) ==
    /\ Len(s) = 8 + 1 + 4 + 1 + 4 + 1 + 4 + 1 + 12
    /\ Hyphens(s) = {8 + 1, 8 + 1 + 4 + 1, 8 + 1 + 4 + 1 + 4 + 1, 8 + 1 + 4 + 1 + 4 + 1 + 4 + 1}
    /\ \A i \in (1..Len(s)) \ Hyphens(s) : s[i] \in DigitSet \cup HexLetters

\* C25: the UUID constructor succeeds only for the empty string, which it
\* reports as unset, and for a 36-character text in the 8-4-4-4-12
\* hexadecimal grouping in either letter case; every other input fails.
UUIDAcceptsOnlyCanonical ==
    pc = "NewUUID" =>
        /\ made.ok <=> given.text = <<>> \/ CanonicalUUID(given.text)
        /\ made.ok /\ given.text = <<>> => made.val = <<>>

\* the days of the months of a year
MonthLengths(y) ==
    <<31, IF y % 4 = 0 /\ (y % 100 # 0 \/ y % 400 = 0) THEN 29 ELSE 28,
      31, 30, 31, 30, 31, 31, 30, 31, 30, 31>>

\* four digits, two digits, two digits, joined by hyphens, naming a day
\* that the calendar has
CalendarDateText(s) ==
    /\ Len(s) = 10
    /\ \A i \in 1..10 : IF i \in {5, 8} THEN s[i] = "-" ELSE s[i] \in DigitSet
    /\ LET y == NatValue(SubSeq(s, 1, 4))
           m == NatValue(SubSeq(s, 6, 7))
           d == NatValue(SubSeq(s, 9, 10))
       IN  m \in 1..12 /\ d \in 1..MonthLengths(y)[m]

\* C26: the Date constructor accepts exactly the texts of the layout
\* YYYY-MM-DD that denote a calendar date, and the empty string as the unset
\* Date; every accepted text that is not empty gives a Date that is set and
\* whose textual form is the input.
DateAcceptsExactlyCalendarDates ==
    pc = "ParseDate" =>
        /\ made.ok <=> given.text = <<>> \/ CalendarDateText(given.text)
        /\ made.ok /\ given.text = <<>> => DateIsZero(made.val)
        /\ made.ok /\ given.text # <<>> =>
               ~DateIsZero(made.val) /\ DateString(made.val) = given.text

\* C27: a boolean is accepted only when its text is exactly "true", exactly
\* "false", or empty (unset, false), by the constructor and when a boolean
\* element is decoded alike; every other text, a literal with added
\* characters included, fails.
BoolAcceptsOnlyLiterals ==
    pc \in {"ParseBool", "Bool.UnmarshalXML"} =>
        /\ made.ok <=> given.text \in {<<"t", "r", "u", "e">>, <<"f", "a", "l", "s", "e">>, <<>>}
        /\ made.ok => (made.val <=> given.text = <<"t", "r", "u", "e">>)
-----------------------------------------------------------------------------
(* Properties of the leaves that are not elements *)

\* every present Decimal of a value matches the accept pattern
RECURSIVE DecimalsConform(_, _)
DecimalsConform(v, ty) ==
    CASE ty = TDecimal   -> v = <<>> \/ MatchDecimal(v)
      [] ty.k = "Ptr"    -> v = <<>> \/ DecimalsConform(v[1], TStruct(ty.n))
      [] ty.k = "Slice"  -> \A i \in 1..Len(v) : DecimalsConform(v[i], TStruct(ty.n))
      [] IsComposite(ty) /\ ty.k = "Struct" ->
            \A i \in 1..Len(Fields(ty.n)) :
                DecimalsConform(v[Fields(ty.n)[i].go], Fields(ty.n)[i].ty)
      [] OTHER           -> TRUE

\* the input holds a decimal text that does not conform, as the text of a
\* leaf element or as the text of a quantity
NonConformingDecimal ==
    \/ given.damage = "decimal"
    \/ given.damage = "none" /\ ~DecimalsConform(given.doc, TStruct("Invoice"))

\* C28: the structural decode pass applies the Decimal parse contract to
\* every decimal leaf: each present Decimal of a decoded document, the
\* quantity carried as the text of an element with a unit-code attribute
\* included, matches the accept pattern, and an input with a decimal text
\* that does not conform, in any such position, makes decode fail with the
\* fatal error.
DecimalContractAtEveryLeaf ==
    /\ pc = "decoded" => DecimalsConform(invoice[1], TStruct("Invoice"))
    /\ pc \in {"decoded", "failed"} /\ NonConformingDecimal =>
           /\ pc = "failed"
           /\ invoice = <<>>
           /\ decErr.type = "*DecodeError"

\* the id tokens of the entries of a header collection, in document order
HeaderTokens(inv, kind) ==
    LET h == inv[kind.header]
    IN  IF h = <<>> THEN <<>>
        ELSE [i \in 1..Len(h[1][kind.entry]) |-> h[1][kind.entry][i].ID]

\* the ref token a line carries for a kind, <<>> if it carries none
LineToken(line, kind) ==
    IF line[kind.line] = <<>> THEN <<>> ELSE line[kind.line][1].Ref

\* the reference diagnostics of a decode
DiagnosticsOf(err) == IF err.type = "DecodeErrors" THEN err.list ELSE <<>>

\* C29: the values carried as attributes or as the text of a composite
\* element survive a round trip: decoding the encoded bytes of a decoded
\* document gives every header reference entry its id token, every line
\* reference its ref token, so that the reference diagnostics are those of
\* the first decode, and every line's invoiced quantity its numeric text and
\* unit code.
AttributesSurviveRoundTrip ==
    pc = "redecoded" /\ invoice2 # <<>> =>
        LET first  == invoice[1].InvoiceLines.InvoiceLine
            second == invoice2[1].InvoiceLines.InvoiceLine
        IN  /\ \A k \in 1..Len(RefKinds) :
                  HeaderTokens(invoice2[1], RefKinds[k]) = HeaderTokens(invoice[1], RefKinds[k])
            /\ Len(second) = Len(first)
            /\ \A i \in 1..Len(first) :
                  /\ \A k \in 1..Len(RefKinds) :
                        LineToken(second[i], RefKinds[k]) = LineToken(first[i], RefKinds[k])
                  /\ second[i].InvoicedQuantity.Value = first[i].InvoicedQuantity.Value
                  /\ second[i].InvoicedQuantity.UnitCode = first[i].InvoicedQuantity.UnitCode
            /\ DiagnosticsOf(decErr2) = DiagnosticsOf(decErr)
-----------------------------------------------------------------------------
(* The customer of a tax document *)

\* the document does not identify its customer: it lacks
\* AccountingCustomerParty and is not a simplified tax document, or it is one
\* and lacks AnonymousCustomerParty as well
CustomerMissing(inv) ==
    \/ inv.DocumentType # 7 /\ inv.AccountingCustomerParty = <<>>
    \/ /\ inv.DocumentType = 7
       /\ inv.AccountingCustomerParty = <<>> /\ inv.AnonymousCustomerParty = <<>>

\* C30: AccountingCustomerParty is required, AnonymousCustomerParty being
\* acceptable in its place only for a simplified tax document (type 7): a
\* document of another type without AccountingCustomerParty, and a
\* simplified document with neither party, is reported as RequiredField at
\* Invoice.AccountingCustomerParty with severity Error.
CustomerRequired ==
    pc = "validated" /\ CustomerMissing(invoice[1]) =>
        \E i \in Reported("Invoice.AccountingCustomerParty", ErrCodeRequiredField) :
            errs[i].Severity = SeverityError
=============================================================================
